---- MODULE Spec2Model ----
(***************************************************************************)
(* Entity scoring and retrieval engine of ResearchAgent:                   *)
(*   code/knowledge/store.py          KnowledgeStore                       *)
(*   code/knowledge/hybrid_scorer.py  HybridScorer                         *)
(*                                                                         *)
(* Numbers.  The program computes with Python floats.  The model computes  *)
(* with exact numbers: a probability is a rational <<n, d>> (d > 0), and   *)
(* math.log(x) / math.log2(x) is the term [c |-> 1, x |-> x, base |-> b],  *)
(* a sum of logarithms the sequence of its terms in the order the code     *)
(* adds them, a scaled sum the same terms with scaled coefficients.  Two   *)
(* log sums are compared through the products of their arguments (the     *)
(* logarithm is strictly increasing), computed on arbitrary-size naturals. *)
(* Embedding vectors have one component, so that every norm is rational.   *)
(***************************************************************************)
EXTENDS Integers, Sequences, FiniteSets, TLC

(***************************************************************************)
(* Arbitrary-size naturals: little-endian sequences of limbs below Base,   *)
(* no leading zero limb, zero is <<>>.  The operators recurse in halves or *)
(* not at all, so that the evaluation stays shallow.                       *)
(***************************************************************************)
Base == 10 * 100

\* a sequence given by its elements, evaluated once
List(f) == f \o <<>>

SetMax(S) == CHOOSE m \in S : \A j \in S : j <= m

\* the sum of f[lo..hi]
RECURSIVE SumRange(_, _, _)
SumRange(f, lo, hi) ==
    IF lo > hi THEN 0
    ELSE IF lo = hi THEN f[lo]
    ELSE LET mid == (lo + hi) \div 2
         IN  SumRange(f, lo, mid) + SumRange(f, mid + 1, hi)

BigTrim(a) ==
    LET nz == {i \in 1..Len(a) : a[i] # 0}
    IN  IF nz = {} THEN <<>> ELSE SubSeq(a, 1, SetMax(nz))

\* carry propagation, one pass over all columns at a time
RECURSIVE BigCarry(_)
BigCarry(cols) ==
    IF \A i \in 1..Len(cols) : cols[i] < Base THEN BigTrim(cols)
    ELSE BigCarry(List([k \in 1..(Len(cols) + 1) |->
                     (IF k <= Len(cols) THEN cols[k] % Base ELSE 0)
                     + (IF k > 1 THEN cols[k - 1] \div Base ELSE 0)]))

\* of an integer 0 <= n < 2^31
BigOf(n) ==
    BigTrim(<<n % Base, (n \div Base) % Base, (n \div (Base * Base)) % Base,
              n \div (Base * Base * Base)>>)

BigAdd(a, b) ==
    LET len == IF Len(a) < Len(b) THEN Len(b) ELSE Len(a)
    IN  BigCarry(List([k \in 1..len |->
                    (IF k <= Len(a) THEN a[k] ELSE 0)
                    + (IF k <= Len(b) THEN b[k] ELSE 0)]))

\* column k of the schoolbook product
BigColumn(a, b, k) ==
    LET lo == IF k + 1 - Len(b) > 1 THEN k + 1 - Len(b) ELSE 1
        hi == IF k < Len(a) THEN k ELSE Len(a)
    IN  SumRange([i \in lo..hi |-> a[i] * b[k + 1 - i]], lo, hi)

BigMul(a, b) ==
    IF a = <<>> \/ b = <<>> THEN <<>>
    ELSE BigCarry(List([k \in 1..(Len(a) + Len(b) - 1) |-> BigColumn(a, b, k)]))

RECURSIVE BigPow(_, _)
BigPow(a, k) == IF k = 0 THEN <<1>> ELSE BigMul(a, BigPow(a, k - 1))

\* -1, 0, 1 as a < b, a = b, a > b
BigCmp(a, b) ==
    IF Len(a) < Len(b) THEN -1
    ELSE IF Len(a) > Len(b) THEN 1
    ELSE LET diff == {i \in 1..Len(a) : a[i] # b[i]}
         IN  IF diff = {} THEN 0
             ELSE IF a[SetMax(diff)] < b[SetMax(diff)] THEN -1 ELSE 1

(***************************************************************************)
(* Rationals <<n, d>>, d > 0, kept in lowest terms.                        *)
(***************************************************************************)
Abs(x) == IF x < 0 THEN -x ELSE x

RECURSIVE Gcd(_, _)
Gcd(a, b) == IF b = 0 THEN a ELSE Gcd(b, a % b)

Rat(n, d) ==
    LET g == Gcd(Abs(n), Abs(d))
        s == IF d < 0 THEN -1 ELSE 1
    IN  <<(s * n) \div g, (s * d) \div g>>

RatInt(k) == <<k, 1>>
RatAdd(a, b) == Rat(a[1] * b[2] + b[1] * a[2], a[2] * b[2])
RatSub(a, b) == Rat(a[1] * b[2] - b[1] * a[2], a[2] * b[2])
RatMul(a, b) == Rat(a[1] * b[1], a[2] * b[2])
RatDiv(a, b) == Rat(a[1] * b[2], a[2] * b[1])
RatLeq(a, b) == a[1] * b[2] <= b[1] * a[2]
RatLess(a, b) == a[1] * b[2] < b[1] * a[2]
RatMax(a, b) == IF RatLess(a, b) THEN b ELSE a
RatIsZero(a) == a[1] = 0

(***************************************************************************)
(* Python dict / Counter / defaultdict: a sequence of <<key, value>> pairs *)
(* in insertion order, each key once.                                      *)
(***************************************************************************)
EmptyDict == <<>>

DictKeys(d) == List([i \in 1..Len(d) |-> d[i][1]])
KeySet(d) == {d[i][1] : i \in 1..Len(d)}
Has(d, k) == \E i \in 1..Len(d) : d[i][1] = k
IndexOf(d, k) == CHOOSE i \in 1..Len(d) : d[i][1] = k
\* d.get(k, default); for a Counter also d[k] with default 0 (Counter.__missing__
\* returns 0 and inserts nothing)
Get(d, k, default) == IF Has(d, k) THEN d[IndexOf(d, k)][2] ELSE default
\* d[k] = v
Put(d, k, v) ==
    IF Has(d, k) THEN [d EXCEPT ![IndexOf(d, k)] = <<k, v>>]
    ELSE Append(d, <<k, v>>)

\* Counter.update(mapping): add the mapping's counts, key by key
RECURSIVE CounterUpdate(_, _)
CounterUpdate(c, mapping) ==
    IF mapping = <<>> THEN c
    ELSE LET k == Head(mapping)[1]
             v == Head(mapping)[2]
         IN  CounterUpdate(Put(c, k, Get(c, k, 0) + v), Tail(mapping))

\* Counter.__add__: sums of the counts, keeping only the positive ones; the
\* keys of the left operand first, then the keys only the right one has
RECURSIVE KeepPositive(_)
KeepPositive(d) ==
    IF d = <<>> THEN <<>>
    ELSE (IF Head(d)[2] > 0 THEN <<Head(d)>> ELSE <<>>) \o KeepPositive(Tail(d))

RECURSIVE OnlyIn(_, _)
OnlyIn(other, c) ==
    IF other = <<>> THEN <<>>
    ELSE (IF Has(c, Head(other)[1]) THEN <<>> ELSE <<Head(other)>>)
         \o OnlyIn(Tail(other), c)

CounterAdd(c, other) ==
    KeepPositive(List([i \in 1..Len(c) |-> <<c[i][1], c[i][2] + Get(other, c[i][1], 0)>>]))
    \o KeepPositive(OnlyIn(other, c))

\* sum(counters, start=Counter())
RECURSIVE CounterSum(_, _)
CounterSum(counters, start) ==
    IF counters = <<>> THEN start
    ELSE CounterSum(Tail(counters), CounterAdd(start, Head(counters)))

\* list(Counter.elements()): each key repeated count times, keys in order
RECURSIVE Repeat(_, _)
Repeat(x, n) == IF n < 1 THEN <<>> ELSE <<x>> \o Repeat(x, n - 1)

\* (mutant) each key once, whatever its count
ElementsOnce(c) == DictKeys(c)

RECURSIVE Elements(_)
Elements(c) ==
    IF c = <<>> THEN <<>>
    ELSE Repeat(Head(c)[1], Head(c)[2]) \o Elements(Tail(c))

\* sum(d.values())
RECURSIVE SumValues(_)
SumValues(d) == IF d = <<>> THEN 0 ELSE Head(d)[2] + SumValues(Tail(d))

\* defaultdict(Counter).__getitem__: a missing key is inserted with an empty
\* Counter; the dict after the access
Touch(dd, k) == IF Has(dd, k) THEN dd ELSE Append(dd, <<k, EmptyDict>>)

\* (mutant) the rows accessed are summed in place into the first of them
TouchAllAccumulating(dd, ks) ==
    IF ks = <<>> THEN dd
    ELSE Put(dd, Head(ks),
             CounterSum(List([i \in 1..Len(ks) |-> Get(dd, ks[i], EmptyDict)]),
                        EmptyDict))

RECURSIVE TouchAll(_, _)
TouchAll(dd, ks) ==
    IF ks = <<>> THEN dd ELSE TouchAll(Touch(dd, Head(ks)), Tail(ks))

(***************************************************************************)
(* KnowledgeStore: the statistics built at construction.                   *)
(* knowledge_base is the list of records [corpusid, knowledge].            *)
(***************************************************************************)
RECURSIVE build_paper2entities(_)
build_paper2entities(kb) ==
    IF kb = <<>> THEN EmptyDict
    ELSE LET instance == kb[Len(kb)]
         IN  Put(build_paper2entities(SubSeq(kb, 1, Len(kb) - 1)),
                 instance.corpusid, instance.knowledge)

\* (mutant) the entity itself is not left out of the counts added to its row
OthersAndSelf(entities, entity_name) == entities

\* {key: value for key, value in entities.items() if key != entity_name}
RECURSIVE Others(_, _)
Others(entities, entity_name) ==
    IF entities = <<>> THEN <<>>
    ELSE (IF Head(entities)[1] # entity_name THEN <<Head(entities)>> ELSE <<>>)
         \o Others(Tail(entities), entity_name)

\* (mutant) the row of an entity is looked up only when the instance has
\* other entities to add to it
RECURSIVE AddCooccurrenceIfOthers(_, _, _)
AddCooccurrenceIfOthers(cooc, entities, names) ==
    IF names = <<>> THEN cooc
    ELSE LET entity_name == Head(names)
             others == Others(entities, entity_name)
         IN  AddCooccurrenceIfOthers(
                 IF others = <<>> THEN cooc
                 ELSE Put(cooc, entity_name,
                          CounterUpdate(Get(cooc, entity_name, EmptyDict), others)),
                 entities, Tail(names))

\* the loop over entities.keys() of one instance
RECURSIVE AddCooccurrence(_, _, _)
AddCooccurrence(cooc, entities, names) ==
    IF names = <<>> THEN cooc
    ELSE LET entity_name == Head(names)
             touched == Touch(cooc, entity_name)
             row == Get(touched, entity_name, EmptyDict)
         IN  AddCooccurrence(
                 Put(touched, entity_name,
                     CounterUpdate(row, Others(entities, entity_name))),
                 entities, Tail(names))

\* <<entity_counter, entity_cooccurrence>> after the loop over the instances
RECURSIVE build_entity_statistics(_)
build_entity_statistics(kb) ==
    IF kb = <<>> THEN <<EmptyDict, EmptyDict>>
    ELSE LET before == build_entity_statistics(SubSeq(kb, 1, Len(kb) - 1))
             entities == kb[Len(kb)].knowledge
         IN  <<CounterUpdate(before[1], entities),
               AddCooccurrence(before[2], entities, DictKeys(entities))>>

(***************************************************************************)
(* Logarithms.  A log sum is the sequence of its terms                     *)
(*   [c |-> coefficient, x |-> [n, d, t] argument, base |-> "e" | "2",     *)
(*    ok |-> FALSE when the argument is <= 0 (math.log raises ValueError)] *)
(* and stands for the sum of c * log_base((n / d) * 1e-16^t).              *)
(***************************************************************************)
BigOne == <<1>>

\* 1e-16 is 1 / TinyInv
TinyInv == <<0, 0, 0, 0, 0, 10>>

FromRat(q) == [n |-> BigOf(q[1]), d |-> BigOf(q[2]), t |-> 0]

LogTerm(q, base) ==
    [c |-> RatInt(1),
     x |-> IF q[1] > 0 THEN FromRat(q) ELSE [n |-> <<>>, d |-> BigOne, t |-> 0],
     base |-> base,
     ok |-> q[1] > 0]

MathLog(q) == LogTerm(q, "e")

\* k * (a sum of logs)
Scale(k, terms) == List([i \in 1..Len(terms) |-> [terms[i] EXCEPT !.c = RatMul(k, @)]])

Raises(terms) == \E i \in 1..Len(terms) : ~terms[i].ok

\* x >= q for a term argument x and a rational q > 0
ArgAtLeast(x, q) ==
    BigCmp(BigMul(x.n, BigOf(q[2])),
           BigMul(BigMul(BigOf(q[1]), x.d), BigPow(TinyInv, x.t))) >= 0

Lcm(a, b) == (a * b) \div Gcd(a, b)

RECURSIVE CoefDen(_)
CoefDen(terms) ==
    IF terms = <<>> THEN 1 ELSE Lcm(Head(terms).c[2], CoefDen(Tail(terms)))

\* the product of part^(c * D) over terms[lo..hi], part being "n" or "d"
RECURSIVE PowerProduct(_, _, _, _, _)
PowerProduct(terms, D, part, lo, hi) ==
    IF lo > hi THEN BigOne
    ELSE IF lo = hi
    THEN LET term == terms[lo]
             e == (term.c[1] * D) \div term.c[2]
         IN  BigPow(IF part = "n" THEN term.x.n ELSE term.x.d, e)
    ELSE LET mid == (lo + hi) \div 2
         IN  BigMul(PowerProduct(terms, D, part, lo, mid),
                    PowerProduct(terms, D, part, mid + 1, hi))

\* exp(D * sum) for a sum of logs with coefficients >= 0 that are multiples
\* of 1 / D: the number (n / d) * 1e-16^t
Exp(terms, D) ==
    [n |-> PowerProduct(terms, D, "n", 1, Len(terms)),
     d |-> PowerProduct(terms, D, "d", 1, Len(terms)),
     t |-> SumRange([i \in 1..Len(terms) |->
                        ((terms[i].c[1] * D) \div terms[i].c[2]) * terms[i].x.t],
                    1, Len(terms))]

\* -1, 0, 1 as v1 < v2, v1 = v2, v1 > v2
CmpExp(v1, v2) ==
    LET m == IF v1.t < v2.t THEN v1.t ELSE v2.t
    IN  BigCmp(BigMul(BigMul(v1.n, v2.d), BigPow(TinyInv, v2.t - m)),
               BigMul(BigMul(v2.n, v1.d), BigPow(TinyInv, v1.t - m)))

\* the sign of (sum s1) - (sum s2) for two sums of logs in one base
CmpScore(s1, s2) ==
    LET D == Lcm(CoefDen(s1), CoefDen(s2))
    IN  CmpExp(Exp(s1, D), Exp(s2, D))

\* list.sort(key=score, reverse=True) / sorted(..., reverse=True): stable, so
\* items with equal scores keep their order.  Items are <<x, score>>; the
\* sort compares the keys <<x, score, Exp(score)>>.
\* (mutant) an item goes before the items of equal score already placed
RECURSIVE InsertDescBeforeEqual(_, _)
InsertDescBeforeEqual(sorted, item) ==
    IF sorted = <<>> THEN <<item>>
    ELSE IF CmpExp(Head(sorted)[3], item[3]) <= 0 THEN <<item>> \o sorted
    ELSE <<Head(sorted)>> \o InsertDescBeforeEqual(Tail(sorted), item)

RECURSIVE InsertDesc(_, _)
InsertDesc(sorted, item) ==
    IF sorted = <<>> THEN <<item>>
    ELSE IF CmpExp(Head(sorted)[3], item[3]) < 0 THEN <<item>> \o sorted
    ELSE <<Head(sorted)>> \o InsertDesc(Tail(sorted), item)

RECURSIVE SortKeyed(_)
SortKeyed(keyed) ==
    IF keyed = <<>> THEN <<>>
    ELSE InsertDesc(SortKeyed(SubSeq(keyed, 1, Len(keyed) - 1)), keyed[Len(keyed)])

RECURSIVE ItemsDen(_)
ItemsDen(items) ==
    IF items = <<>> THEN 1 ELSE Lcm(CoefDen(Head(items)[2]), ItemsDen(Tail(items)))

SortDesc(items) ==
    LET D == ItemsDen(items)
        keyed == List([i \in 1..Len(items) |->
                         <<items[i][1], items[i][2], Exp(items[i][2], D)>>])
        sorted == SortKeyed(keyed)
    IN  List([i \in 1..Len(sorted) |-> <<sorted[i][1], sorted[i][2]>>])

\* (mutant) the list is not cut
TakeAll(seq, k) == seq

\* seq[:k] for k >= 0
Take(seq, k) == SubSeq(seq, 1, IF k < Len(seq) THEN k ELSE Len(seq))

(***************************************************************************)
(* Optional values: r (Optional[int]) and local_embedding                  *)
(* (Optional[np.ndarray]) are sequences of at most one element.  A vector  *)
(* is a sequence of rationals; np.array([]) is <<>>.                       *)
(***************************************************************************)
None == <<>>
Some(v) == <<v>>

(***************************************************************************)
(* HybridScorer.  self is the record of the scorer's attributes.           *)
(***************************************************************************)
HybridScorer(entity_cooccurrence, entity_counter, entity_embeddings, alpha, tau, epsilon, beta, r, threshold) ==
    LET total == SumValues(entity_counter)
    IN  [entity_cooccurrence |-> entity_cooccurrence,
         entity_counter |-> entity_counter,
         entity_embeddings |-> entity_embeddings,
         alpha |-> alpha, tau |-> tau, epsilon |-> epsilon, beta |-> beta,
         threshold |-> threshold,
         total_counts |-> total,
         r |-> IF r = None THEN total ELSE r[1]]

\* self.entity_cooccurrence.get(entity, Counter()).get(local_entity, 0)
CooccurrenceCount(self, entity, local_entity) ==
    Get(Get(self.entity_cooccurrence, entity, EmptyDict), local_entity, 0)

\* (mutant) alpha is left out of the numerator
_compute_smoothed_cooccurrence_prob_plain_numerator(self, entity, local_entity) ==
    LET cooccurrence_count == CooccurrenceCount(self, entity, local_entity)
        entity_count == Get(self.entity_counter, entity, 0)
        denominator == RatAdd(RatInt(entity_count), RatMul(self.alpha, RatInt(self.r)))
    IN  IF RatIsZero(denominator) THEN self.epsilon
        ELSE RatMax(self.epsilon, RatDiv(RatInt(cooccurrence_count), denominator))

_compute_smoothed_cooccurrence_prob(self, entity, local_entity) ==
    LET cooccurrence_count == CooccurrenceCount(self, entity, local_entity)
        entity_count == Get(self.entity_counter, entity, 0)
        numerator == RatAdd(RatInt(cooccurrence_count), self.alpha)
        denominator == RatAdd(RatInt(entity_count), RatMul(self.alpha, RatInt(self.r)))
    IN  IF RatIsZero(denominator) THEN self.epsilon
        ELSE RatMax(self.epsilon, RatDiv(numerator, denominator))

\* np.linalg.norm and np.dot on vectors of rationals; the square root is
\* exact on the squares the one-component vectors of the model give
ISqrt(n) == CHOOSE s \in 0..n : s * s = n
RatSqrt(q) == <<ISqrt(q[1]), ISqrt(q[2])>>

RECURSIVE Dot(_, _)
Dot(vec1, vec2) ==
    IF vec1 = <<>> THEN RatInt(0)
    ELSE RatAdd(RatMul(Head(vec1), Head(vec2)), Dot(Tail(vec1), Tail(vec2)))

Norm(vec) == RatSqrt(Dot(vec, vec))

\* (mutant) a vector of zero norm counts as opposite to every vector
_cosine_similarity_zero_as_opposite(vec1, vec2) ==
    IF Len(vec1) = 0 \/ Len(vec2) = 0 THEN RatInt(0)
    ELSE LET norm1 == Norm(vec1)
             norm2 == Norm(vec2)
         IN  IF RatIsZero(norm1) \/ RatIsZero(norm2) THEN RatInt(-1)
             ELSE RatDiv(Dot(vec1, vec2), RatMul(norm1, norm2))

_cosine_similarity(vec1, vec2) ==
    IF Len(vec1) = 0 \/ Len(vec2) = 0 THEN RatInt(0)
    ELSE LET norm1 == Norm(vec1)
             norm2 == Norm(vec2)
         IN  IF RatIsZero(norm1) \/ RatIsZero(norm2) THEN RatInt(0)
             ELSE RatDiv(Dot(vec1, vec2), RatMul(norm1, norm2))

\* (mutant) the similarity is mapped to [0, 1] without the scale factor tau
_compute_embedding_fallback_prob_unscaled(self, entity, local_entity) ==
    IF ~Has(self.entity_embeddings, entity) \/ ~Has(self.entity_embeddings, local_entity)
    THEN self.epsilon
    ELSE LET vec_entity == Get(self.entity_embeddings, entity, <<>>)
             vec_local == Get(self.entity_embeddings, local_entity, <<>>)
             cosine_sim == _cosine_similarity(vec_entity, vec_local)
         IN  RatMax(self.epsilon, RatDiv(RatAdd(cosine_sim, RatInt(1)), RatInt(2)))

_compute_embedding_fallback_prob(self, entity, local_entity) ==
    IF ~Has(self.entity_embeddings, entity) \/ ~Has(self.entity_embeddings, local_entity)
    THEN self.epsilon
    ELSE LET vec_entity == Get(self.entity_embeddings, entity, <<>>)
             vec_local == Get(self.entity_embeddings, local_entity, <<>>)
             cosine_sim == _cosine_similarity(vec_entity, vec_local)
             mapped_prob == RatDiv(RatMul(self.tau, RatAdd(cosine_sim, RatInt(1))),
                                   RatInt(2))
         IN  RatMax(self.epsilon, mapped_prob)

\* (mutant) the comparison with the threshold is strict
_select_factor_strict(self, entity, local_entity) ==
    LET cooccurrence_count == CooccurrenceCount(self, entity, local_entity)
    IN  IF cooccurrence_count > self.threshold
        THEN _compute_smoothed_cooccurrence_prob(self, entity, local_entity)
        ELSE _compute_embedding_fallback_prob(self, entity, local_entity)

\* (mutant) the embedding conditional is taken for every pair
_select_factor_fallback_only(self, entity, local_entity) ==
    _compute_embedding_fallback_prob(self, entity, local_entity)

_select_factor(self, entity, local_entity) ==
    LET cooccurrence_count == CooccurrenceCount(self, entity, local_entity)
    IN  IF cooccurrence_count >= self.threshold
        THEN _compute_smoothed_cooccurrence_prob(self, entity, local_entity)
        ELSE _compute_embedding_fallback_prob(self, entity, local_entity)

\* a one-term log sum
_compute_log_prior(self, entity) ==
    LET entity_count == Get(self.entity_counter, entity, 0)
    IN  IF entity_count = 0 THEN <<MathLog(self.epsilon)>>
        ELSE LET prob == Rat(entity_count, self.total_counts)
             IN  <<MathLog(RatMax(self.epsilon, prob))>>

\* (mutant) one term per distinct local entity: a repeated entity counts once
_compute_log_likelihood_of_distinct(self, entity, local_entities) ==
    LET first == {i \in 1..Len(local_entities) :
                     \A j \in 1..(i - 1) : local_entities[j] # local_entities[i]}
        kept == SelectSeq(List([i \in 1..Len(local_entities) |->
                                  IF i \in first THEN <<local_entities[i]>> ELSE <<>>]),
                          LAMBDA x : x # <<>>)
    IN  List([i \in 1..Len(kept) |->
            LET prob == _select_factor(self, entity, kept[i][1])
            IN  MathLog(RatMax(self.epsilon, prob))])

\* one term per element of local_entities, in the order of the list
_compute_log_likelihood(self, entity, local_entities) ==
    List([i \in 1..Len(local_entities) |->
        LET prob == _select_factor(self, entity, local_entities[i])
        IN  MathLog(RatMax(self.epsilon, prob))])

\* (mutant) the mapped probability is not floored at epsilon
_compute_log_embedding_relevance_unfloored(self, entity, local_embedding) ==
    IF ~Has(self.entity_embeddings, entity) \/ Len(local_embedding) = 0
    THEN <<MathLog(self.epsilon)>>
    ELSE LET vec_entity == Get(self.entity_embeddings, entity, <<>>)
             cosine_sim == _cosine_similarity(vec_entity, local_embedding)
             mapped_prob == RatDiv(RatAdd(cosine_sim, RatInt(1)), RatInt(2))
         IN  <<MathLog(mapped_prob)>>

_compute_log_embedding_relevance(self, entity, local_embedding) ==
    IF ~Has(self.entity_embeddings, entity) \/ Len(local_embedding) = 0
    THEN <<MathLog(self.epsilon)>>
    ELSE LET vec_entity == Get(self.entity_embeddings, entity, <<>>)
             cosine_sim == _cosine_similarity(vec_entity, local_embedding)
             mapped_prob == RatDiv(RatAdd(cosine_sim, RatInt(1)), RatInt(2))
         IN  <<MathLog(RatMax(self.epsilon, mapped_prob))>>

\* (mutant) the co-occurrence signal is not weighted by 1 - beta
score_entity_unweighted(self, entity, local_entities, local_embedding) ==
    LET log_prior == _compute_log_prior(self, entity)
        log_likelihood == _compute_log_likelihood(self, entity, local_entities)
        co_occurrence_signal == log_prior \o log_likelihood
        embedding_signal ==
            IF local_embedding = None \/ Len(local_embedding[1]) = 0
            THEN <<MathLog(self.epsilon)>>
            ELSE _compute_log_embedding_relevance(self, entity, local_embedding[1])
    IN  co_occurrence_signal \o Scale(self.beta, embedding_signal)

\* the score: the log sum (1 - beta) * (prior + likelihood) + beta * embedding
score_entity(self, entity, local_entities, local_embedding) ==
    LET log_prior == _compute_log_prior(self, entity)
        log_likelihood == _compute_log_likelihood(self, entity, local_entities)
        co_occurrence_signal == log_prior \o log_likelihood
        embedding_signal ==
            IF local_embedding = None \/ Len(local_embedding[1]) = 0
            THEN <<MathLog(self.epsilon)>>
            ELSE _compute_log_embedding_relevance(self, entity, local_embedding[1])
    IN  Scale(RatSub(RatInt(1), self.beta), co_occurrence_signal)
        \o Scale(self.beta, embedding_signal)

\* (mutant) the list is returned as scored, without the sort
score_entities_batch_unsorted(self, candidate_entities, local_entities, local_embedding) ==
    List([i \in 1..Len(candidate_entities) |->
            <<candidate_entities[i],
              score_entity(self, candidate_entities[i], local_entities,
                           local_embedding)>>])

\* the list of <<entity, score>>, sorted by score, descending
score_entities_batch(self, candidate_entities, local_entities, local_embedding) ==
    SortDesc(List([i \in 1..Len(candidate_entities) |->
                <<candidate_entities[i],
                  score_entity(self, candidate_entities[i], local_entities,
                               local_embedding)>>]))

get_top_k_entities(self, candidate_entities, local_entities, local_embedding, k) ==
    LET scored_entities ==
            score_entities_batch(self, candidate_entities, local_entities,
                                 local_embedding)
        top == Take(scored_entities, k)
    IN  List([i \in 1..Len(top) |-> top[i][1]])

\* (mutant) every entity of the list carries the score of the first
get_top_k_entities_with_top_score(self, candidate_entities, local_entities, local_embedding, k) ==
    LET scored_entities ==
            score_entities_batch(self, candidate_entities, local_entities,
                                 local_embedding)
        top == Take(scored_entities, k)
    IN  List([i \in 1..Len(top) |-> <<top[i][1], top[1][2]>>])

get_top_k_entities_with_scores(self, candidate_entities, local_entities, local_embedding, k) ==
    LET scored_entities ==
            score_entities_batch(self, candidate_entities, local_entities,
                                 local_embedding)
    IN  Take(scored_entities, k)

(***************************************************************************)
(* KnowledgeStore queries.  store is the record of the store's attributes; *)
(* the scorer reads the store's own tables (it holds references to them).  *)
(***************************************************************************)
ScorerSelf(store) ==
    [entity_cooccurrence |-> store.entity_cooccurrence,
     entity_counter |-> store.entity_counter,
     entity_embeddings |-> store.entity_embeddings,
     alpha |-> store.hybrid_scorer[1].alpha,
     tau |-> store.hybrid_scorer[1].tau,
     epsilon |-> store.hybrid_scorer[1].epsilon,
     beta |-> store.hybrid_scorer[1].beta,
     threshold |-> store.hybrid_scorer[1].threshold,
     total_counts |-> store.hybrid_scorer[1].total_counts,
     r |-> store.hybrid_scorer[1].r]

\* (mutant) a local entity without an embedding counts as a zero vector
RECURSIVE LocalVectorsZeroFilled(_, _)
LocalVectorsZeroFilled(entity_embeddings, local_entities) ==
    IF local_entities = <<>> THEN <<>>
    ELSE <<Get(entity_embeddings, Head(local_entities), <<RatInt(0)>>)>>
         \o LocalVectorsZeroFilled(entity_embeddings, Tail(local_entities))

\* [entity_embeddings[e] for e in local_entities if e in entity_embeddings]
RECURSIVE LocalVectors(_, _)
LocalVectors(entity_embeddings, local_entities) ==
    IF local_entities = <<>> THEN <<>>
    ELSE (IF Has(entity_embeddings, Head(local_entities))
          THEN <<Get(entity_embeddings, Head(local_entities), <<>>)>>
          ELSE <<>>)
         \o LocalVectors(entity_embeddings, Tail(local_entities))

RECURSIVE SumSeq(_)
SumSeq(s) == IF s = <<>> THEN 0 ELSE Head(s) + SumSeq(Tail(s))

\* sum over i of k[i] * vectors[i][j], k a sequence of rationals
RECURSIVE WeightedComponent(_, _, _)
WeightedComponent(vectors, k, j) ==
    IF vectors = <<>> THEN RatInt(0)
    ELSE RatAdd(RatMul(Head(k), Head(vectors)[j]),
                WeightedComponent(Tail(vectors), Tail(k), j))

\* [raised, v]: np.mean, or np.average with the weights kept, of one or more
\* vectors; np.average raises when the weights kept are fewer than the vectors
LocalAverage(embeddings, weights) ==
    LET count == Len(embeddings)
        dim == Len(embeddings[1])
    IN  IF weights = None
        THEN [raised |-> FALSE,
              v |-> List([j \in 1..dim |->
                        WeightedComponent(embeddings,
                            List([i \in 1..count |-> Rat(1, count)]), j)])]
        ELSE LET weights_array == Take(weights[1], count)
                 total == SumSeq(weights_array)
             IN  IF Len(weights_array) # count
                 THEN [raised |-> TRUE, v |-> <<>>]
                 ELSE [raised |-> FALSE,
                       v |-> List([j \in 1..dim |->
                                 WeightedComponent(embeddings,
                                     List([i \in 1..count |->
                                             Rat(weights_array[i], total)]), j)])]

\* (mutant) no early return when no local entity has an embedding: the
\* average of no vectors is an error
_compute_local_embedding_unguarded(entity_embeddings, local_entities, weights) ==
    LET embeddings == LocalVectors(entity_embeddings, local_entities)
    IN  IF Len(embeddings) = 0 THEN [raised |-> TRUE, v |-> <<>>]
        ELSE LocalAverage(embeddings, weights)

\* [raised, v]
_compute_local_embedding(entity_embeddings, local_entities, weights) ==
    LET embeddings == LocalVectors(entity_embeddings, local_entities)
    IN  IF Len(embeddings) = 0 THEN [raised |-> FALSE, v |-> <<>>]
        ELSE LocalAverage(embeddings, weights)

\* x + 1e-16 in double precision for a rational x >= 0: 1e-16 is less than
\* half the spacing of the doubles at x >= 1, so the sum rounds to x; below 1
\* the sum is taken exactly.  The result is (n / d) * 1e-16^t.
AddTiny(x) ==
    IF x[1] >= x[2] THEN FromRat(x)
    ELSE [n |-> BigAdd(BigMul(BigOf(x[1]), TinyInv), BigOf(x[2])),
          d |-> BigOf(x[2]), t |-> 1]

\* a / b for two such numbers, b > 0
TinyDiv(a, b) == [n |-> BigMul(a.n, b.d), d |-> BigMul(a.d, b.n), t |-> a.t - b.t]

\* math.log2
MathLog2(x) == [c |-> RatInt(1), x |-> x, base |-> "2", ok |-> x.n # <<>>]

\* the log sum of the legacy conditional log probabilities
get_entity_log_likelihood(entity_cooccurrence, entity, paper_entities) ==
    LET row == Get(entity_cooccurrence, entity, EmptyDict)
        total == AddTiny(RatInt(SumValues(row)))
    IN  List([i \in 1..Len(paper_entities) |->
            MathLog2(TinyDiv(AddTiny(RatInt(Get(row, paper_entities[i], 0))), total))])

\* [raised, n, d]: entity_counter[entity] / sum(entity_counter.values())
get_entity_probability(entity_counter, entity) ==
    LET total == SumValues(entity_counter)
    IN  IF total = 0 THEN [raised |-> TRUE, n |-> 0, d |-> 1]
        ELSE [raised |-> FALSE, n |-> Get(entity_counter, entity, 0), d |-> total]

\* one candidate's legacy score: [raised, score]
LegacyScore(store, entity, local_entities) ==
    LET p == get_entity_probability(store.entity_counter, entity)
    IN  [raised |-> p.raised,
         score |->
            get_entity_log_likelihood(store.entity_cooccurrence, entity, local_entities)
            \o <<MathLog2(AddTiny(Rat(p.n, p.d)))>>]

\* [raised, value]
_get_relevant_entities_legacy(store, candidate_entities, local_entities, top_k) ==
    LET count == Len(candidate_entities)
        candidate_entities_probs ==
            List([i \in 1..count |-> LegacyScore(store, candidate_entities[i], local_entities)])
        top_indices ==
            Take(SortDesc(List([i \in 1..count |-> <<i, candidate_entities_probs[i].score>>])),
                 IF top_k < count THEN top_k ELSE count)
    IN  IF \E i \in 1..count : candidate_entities_probs[i].raised
               \/ Raises(candidate_entities_probs[i].score)
        THEN [raised |-> TRUE, value |-> <<>>]
        ELSE IF count > 0
        THEN [raised |-> FALSE,
              value |-> List([j \in 1..Len(top_indices) |->
                            candidate_entities[top_indices[j][1]]])]
        ELSE [raised |-> FALSE, value |-> <<>>]

\* [raised, value]
_get_relevant_entities_hybrid(store, candidate_entities, local_entities, top_k, weights) ==
    LET local_embedding ==
            _compute_local_embedding(store.entity_embeddings, local_entities, weights)
        self == ScorerSelf(store)
        scored == score_entities_batch(self, candidate_entities, local_entities,
                                       Some(local_embedding.v))
    IN  IF local_embedding.raised \/ \E i \in 1..Len(scored) : Raises(scored[i][2])
        THEN [raised |-> TRUE, value |-> <<>>]
        ELSE [raised |-> FALSE,
              value |-> get_top_k_entities(self, candidate_entities, local_entities,
                                           Some(local_embedding.v), top_k)]

\* the local entities of a query: sum of Counter(paper2entities[paper_id]) over
\* the known ids, then list(elements())
RECURSIVE KnownPapers(_, _)
KnownPapers(paper2entities, paper_ids) ==
    IF paper_ids = <<>> THEN <<>>
    ELSE (IF Has(paper2entities, Head(paper_ids))
          THEN <<Get(paper2entities, Head(paper_ids), EmptyDict)>>
          ELSE <<>>)
         \o KnownPapers(paper2entities, Tail(paper_ids))

PaperEntitiesList(store, paper_ids) ==
    Elements(CounterSum(KnownPapers(store.paper2entities, paper_ids), EmptyDict))

\* the candidate pool: sum of entity_cooccurrence[entity] over the local list,
\* the keys with count >= 1.  entity_cooccurrence is the defaultdict after the
\* [] accesses.
\* (mutant) the rows of all entities are summed, not those of the local list
CandidateCounterOfAllRows(entity_cooccurrence, paper_entities_list) ==
    CounterSum(List([i \in 1..Len(entity_cooccurrence) |-> entity_cooccurrence[i][2]]),
               EmptyDict)

CandidateCounter(entity_cooccurrence, paper_entities_list) ==
    CounterSum(List([i \in 1..Len(paper_entities_list) |->
                   Get(entity_cooccurrence, paper_entities_list[i], EmptyDict)]),
               EmptyDict)

RECURSIVE AtLeastOne(_)
AtLeastOne(counter) ==
    IF counter = <<>> THEN <<>>
    ELSE (IF Head(counter)[2] >= 1 THEN <<Head(counter)[1]>> ELSE <<>>)
         \o AtLeastOne(Tail(counter))

\* (mutant) the entities of the local list are left out of the pool
CandidatePoolWithoutLocal(entity_cooccurrence, paper_entities_list) ==
    SelectSeq(AtLeastOne(CandidateCounter(entity_cooccurrence, paper_entities_list)),
              LAMBDA e : \A i \in 1..Len(paper_entities_list) :
                            paper_entities_list[i] # e)

CandidatePool(entity_cooccurrence, paper_entities_list) ==
    AtLeastOne(CandidateCounter(entity_cooccurrence, paper_entities_list))

\* the defaultdict entity_cooccurrence after the [] accesses of a query: the
\* rows of the local entities and, in the legacy scoring, of the candidates
AccessedTable(store, paper_ids) ==
    LET paper_entities_list == PaperEntitiesList(store, paper_ids)
        touched == TouchAll(store.entity_cooccurrence, paper_entities_list)
    IN  IF store.use_hybrid_scoring /\ store.hybrid_scorer # None THEN touched
        ELSE TouchAll(touched, CandidatePool(touched, paper_entities_list))

\* [raised, value, entity_cooccurrence]: the result and the defaultdict after
\* the call
get_relevant_entities(store, paper_ids, top_k, weights) ==
    LET paper_entities_list == PaperEntitiesList(store, paper_ids)
        touched == TouchAll(store.entity_cooccurrence, paper_entities_list)
        candidate_entities_filtered == CandidatePool(touched, paper_entities_list)
        after == [store EXCEPT !.entity_cooccurrence = AccessedTable(store, paper_ids)]
    IN  IF store.use_hybrid_scoring /\ store.hybrid_scorer # None
        THEN _get_relevant_entities_hybrid(after, candidate_entities_filtered,
                                           paper_entities_list, top_k, weights)
             @@ [entity_cooccurrence |-> after.entity_cooccurrence]
        ELSE _get_relevant_entities_legacy(after, candidate_entities_filtered,
                                           paper_entities_list, top_k)
             @@ [entity_cooccurrence |-> after.entity_cooccurrence]

\* the legacy branch's zero score
ZeroScore == <<>>

\* [raised, value, entity_cooccurrence], value a list of <<entity, score>>
get_relevant_entities_with_scores(store, paper_ids, top_k, weights) ==
    IF ~store.use_hybrid_scoring \/ store.hybrid_scorer = None
    THEN LET entities == get_relevant_entities(store, paper_ids, top_k, weights)
         IN  [entities EXCEPT
                 !.value = List([i \in 1..Len(entities.value) |->
                               <<entities.value[i], ZeroScore>>])]
    ELSE LET paper_entities_list == PaperEntitiesList(store, paper_ids)
             touched == TouchAll(store.entity_cooccurrence, paper_entities_list)
             candidate_entities_filtered == CandidatePool(touched, paper_entities_list)
             after == [store EXCEPT !.entity_cooccurrence = touched]
             local_embedding ==
                 _compute_local_embedding(store.entity_embeddings,
                                          paper_entities_list, weights)
             self == ScorerSelf(after)
             scored == get_top_k_entities_with_scores(
                           self, candidate_entities_filtered, paper_entities_list,
                           Some(local_embedding.v), top_k)
             all == score_entities_batch(self, candidate_entities_filtered,
                                         paper_entities_list, Some(local_embedding.v))
         IN  IF local_embedding.raised \/ \E i \in 1..Len(all) : Raises(all[i][2])
             THEN [raised |-> TRUE, value |-> <<>>, entity_cooccurrence |-> touched]
             ELSE [raised |-> FALSE, value |-> scored, entity_cooccurrence |-> touched]

\* the configuration dump, a dict
get_scorer_config(store) ==
    IF store.hybrid_scorer = None THEN <<(<<"method", "legacy">>)>>
    ELSE << <<"method", "hybrid">>,
            <<"alpha", store.hybrid_scorer[1].alpha>>,
            <<"tau", store.hybrid_scorer[1].tau>>,
            <<"epsilon", store.hybrid_scorer[1].epsilon>>,
            <<"beta", store.hybrid_scorer[1].beta>>,
            <<"threshold", store.hybrid_scorer[1].threshold>>,
            <<"r", store.hybrid_scorer[1].r>> >>

\* KnowledgeStore.__init__: the record of the store's attributes.  The scorer
\* keeps its hyperparameters; its tables are the store's.
KnowledgeStore(kb, entity_embeddings, use_hybrid_scoring, alpha, tau, epsilon, beta, threshold, r) ==
    LET stats == build_entity_statistics(kb)
        scorer == HybridScorer(stats[2], stats[1], entity_embeddings,
                               alpha, tau, epsilon, beta, r, threshold)
    IN  [knowledge_base |-> kb,
         paper2entities |-> build_paper2entities(kb),
         entity_counter |-> stats[1],
         entity_cooccurrence |-> stats[2],
         entity_embeddings |-> entity_embeddings,
         use_hybrid_scoring |-> use_hybrid_scoring,
         hybrid_scorer |->
            IF use_hybrid_scoring
            THEN Some([alpha |-> scorer.alpha, tau |-> scorer.tau,
                       epsilon |-> scorer.epsilon, beta |-> scorer.beta,
                       threshold |-> scorer.threshold,
                       total_counts |-> scorer.total_counts, r |-> scorer.r])
            ELSE None]

(***************************************************************************)
(* Bounds and the sets the inputs are drawn from.                          *)
(***************************************************************************)
MaxDocs == 2        \* documents in the corpus
MaxIds == 2         \* length of a query's list of document ids
MaxTopK == 3        \* top_k
MaxLocal == 2       \* length of the local list of a direct scorer call
MaxCalls == 1       \* calls made on one store

EntityList == <<"A", "B", "C">>
Entities == {EntityList[i] : i \in 1..Len(EntityList)}

SeqsUpTo(S, n) == UNION {[1..k -> S] : k \in 0..n}

\* a document's knowledge: entity -> weight, in insertion order
KnowledgeDicts ==
    { <<>>,
      << <<"A", 1>> >>,
      << <<"A", 1>>, <<"B", 2>> >>,
      << <<"B", 1>>, <<"C", 1>> >>,
      << <<"C", 2>>, <<"A", 1>> >> }

\* the corpus: document i has corpusid i
Corpus(ds) == List([i \in 1..Len(ds) |-> [corpusid |-> i, knowledge |-> ds[i]]])

KnowledgeBases == {Corpus(ds) : ds \in SeqsUpTo(KnowledgeDicts, MaxDocs)}

\* the corpora of the scorer runs
ScorerCorpora ==
    { Corpus(<<>>),
      Corpus(<< << <<"A", 1>>, <<"B", 2>> >> >>),
      Corpus(<< << <<"B", 1>>, <<"C", 1>> >>, << <<"A", 1>>, <<"B", 2>> >> >>) }

\* one-component embedding vectors
Vec(x) == <<RatInt(x)>>

EmbeddingTables ==
    { <<>>,
      << <<"A", Vec(1)>>, <<"B", Vec(-1)>> >>,
      << <<"A", Vec(1)>>, <<"B", Vec(2)>>, <<"C", Vec(0)>> >> }

\* every table over the entities, for the comparison of runs
RECURSIVE TableOf(_, _)
TableOf(choice, i) ==
    IF i > Len(EntityList) THEN <<>>
    ELSE (IF choice[i] = 0 THEN <<>> ELSE << <<EntityList[i], Vec(choice[i] - 2)>> >>)
         \o TableOf(choice, i + 1)

AllEmbeddingTables ==
    {TableOf(choice, 1) : choice \in [1..Len(EntityList) -> 0..3]}

DefaultConfig ==
    [use_hybrid_scoring |-> TRUE, alpha |-> Rat(1, 100), tau |-> Rat(1, 2),
     epsilon |-> Rat(1, 1000), beta |-> Rat(1, 2), threshold |-> 1, r |-> None]

\* the stores of the query runs: scoring strategy and embedding table
StoreSetups ==
    { [cfg |-> DefaultConfig, emb |-> <<>>],
      [cfg |-> DefaultConfig, emb |-> << <<"A", Vec(1)>>, <<"B", Vec(-1)>> >>],
      [cfg |-> DefaultConfig,
       emb |-> << <<"A", Vec(1)>>, <<"B", Vec(2)>>, <<"C", Vec(0)>> >>],
      [cfg |-> [DefaultConfig EXCEPT !.beta = RatInt(0)],
       emb |-> << <<"A", Vec(1)>>, <<"B", Vec(-1)>> >>],
      [cfg |-> [DefaultConfig EXCEPT !.use_hybrid_scoring = FALSE], emb |-> <<>>] }

\* the configurations of the scorer runs: one hyperparameter off its default
ScorerConfigs ==
    { DefaultConfig,
      [DefaultConfig EXCEPT !.beta = RatInt(0)],
      [DefaultConfig EXCEPT !.beta = RatInt(1)],
      [DefaultConfig EXCEPT !.threshold = 0],
      [DefaultConfig EXCEPT !.threshold = 3],
      [DefaultConfig EXCEPT !.alpha = RatInt(1)],
      [DefaultConfig EXCEPT !.r = Some(1)],
      [DefaultConfig EXCEPT !.epsilon = Rat(1, 2)],
      [DefaultConfig EXCEPT !.tau = RatInt(1)] }

\* statistics handed to a HybridScorer directly: counts A:10, B:5, C:2 and a
\* table in which B has weight 3 in the row of A
ScenarioCounter == << <<"A", 10>>, <<"B", 5>>, <<"C", 2>> >>
ScenarioCooccurrence ==
    << <<"A", << <<"B", 3>> >> >>, <<"B", << <<"A", 3>> >> >> >>
ScenarioConfigs ==
    { [DefaultConfig EXCEPT !.r = Some(17)],
      [DefaultConfig EXCEPT !.r = Some(17), !.beta = RatInt(0)] }

DocIds == 1..(MaxDocs + 1)
PaperIdLists == SeqsUpTo(DocIds, MaxIds)
WeightsChoices == {None, Some(<<1, 2>>)}
LocalLists == SeqsUpTo(Entities, MaxLocal)
LocalEmbeddings == {None, Some(<<>>), Some(Vec(1)), Some(Vec(-1))}
\* the local lists and weights of the direct _compute_local_embedding calls
AveragedLists ==
    LocalLists \cup {<<"C", "A", "B">>, <<"A", "C", "B">>, <<"A", "B", "C">>}
AveragedWeights == WeightsChoices \cup {Some(<<1, 2, 3>>)}
CandidateLists == {<<"A", "B", "C">>, <<"C", "B", "A">>}

(***************************************************************************)
(* State: the attributes of one KnowledgeStore, the last call made on it   *)
(* and the number of calls made so far.                                    *)
(***************************************************************************)
VARIABLES knowledge_base, paper2entities, entity_counter, entity_cooccurrence,
          entity_embeddings, use_hybrid_scoring, hybrid_scorer, call, calls

(***************************************************************************)
(* State of the collaborators of the store: the rate limiter of the        *)
(* bibliographic client and the threads calling it, one call of the chat   *)
(* client, one run of the research pipeline, one call of _select_best, and *)
(* the conversations of the generating agents.                             *)
(***************************************************************************)
VARIABLES _last_request_time, _rate_lock, clock, threads, written

VARIABLES _client, openai_call

VARIABLES context, history, pipeline

VARIABLES selection

VARIABLES messages, generated, agent_runs

storeVars == <<knowledge_base, paper2entities, entity_counter, entity_cooccurrence, entity_embeddings, use_hybrid_scoring, hybrid_scorer, call, calls>>

s2Vars == <<_last_request_time, _rate_lock, clock, threads, written>>

openaiVars == <<_client, openai_call>>

pipelineVars == <<context, history, pipeline>>

agentVars == <<messages, generated, agent_runs>>

vars == <<storeVars, s2Vars, openaiVars, pipelineVars, selection, agentVars>>

\* the collaborators before any of them is used
Unused ==
    /\ _last_request_time = 0
    /\ _rate_lock = 0
    /\ clock = 0
    /\ threads = <<>>
    /\ written = <<>>
    /\ _client = "none"
    /\ openai_call = <<>>
    /\ context = <<>>
    /\ history = <<>>
    /\ pipeline = <<>>
    /\ selection = <<>>
    /\ messages = <<>>
    /\ generated = <<>>
    /\ agent_runs = <<>>

Store ==
    [knowledge_base |-> knowledge_base,
     paper2entities |-> paper2entities,
     entity_counter |-> entity_counter,
     entity_cooccurrence |-> entity_cooccurrence,
     entity_embeddings |-> entity_embeddings,
     use_hybrid_scoring |-> use_hybrid_scoring,
     hybrid_scorer |-> hybrid_scorer]

NoCall ==
    [op |-> "none", paper_ids |-> <<>>, top_k |-> 0, weights |-> None,
     entity |-> "", local_entity |-> "", candidate_entities |-> <<>>,
     local_entities |-> <<>>, local_embedding |-> None,
     raised |-> FALSE, value |-> <<>>]

\* a KnowledgeStore without a corpus, for the runs of the collaborators
NoStore ==
    /\ knowledge_base = <<>>
    /\ paper2entities = EmptyDict
    /\ entity_counter = EmptyDict
    /\ entity_cooccurrence = EmptyDict
    /\ entity_embeddings = EmptyDict
    /\ use_hybrid_scoring = FALSE
    /\ hybrid_scorer = None
    /\ call = NoCall
    /\ calls = 0

Constructed(kb, emb, cfg) ==
    LET s == KnowledgeStore(kb, emb, cfg.use_hybrid_scoring, cfg.alpha, cfg.tau,
                            cfg.epsilon, cfg.beta, cfg.threshold, cfg.r)
    IN  /\ knowledge_base = s.knowledge_base
        /\ paper2entities = s.paper2entities
        /\ entity_counter = s.entity_counter
        /\ entity_cooccurrence = s.entity_cooccurrence
        /\ entity_embeddings = s.entity_embeddings
        /\ use_hybrid_scoring = s.use_hybrid_scoring
        /\ hybrid_scorer = s.hybrid_scorer
        /\ call = NoCall
        /\ calls = 0
        /\ Unused

Init ==
    \E kb \in KnowledgeBases, setup \in StoreSetups :
        Constructed(kb, setup.emb, setup.cfg)

GetRelevantEntities ==
    /\ calls < MaxCalls
    /\ UNCHANGED <<s2Vars, openaiVars, pipelineVars, selection, agentVars>>
    /\ \E paper_ids \in PaperIdLists, top_k \in 0..MaxTopK, weights \in WeightsChoices :
        \E res \in {get_relevant_entities(Store, paper_ids, top_k, weights)} :
            /\ calls' = calls + 1
            /\ entity_cooccurrence' = res.entity_cooccurrence
            /\ call' = [NoCall EXCEPT !.op = "get_relevant_entities",
                                      !.paper_ids = paper_ids, !.top_k = top_k,
                                      !.weights = weights,
                                      !.raised = res.raised, !.value = res.value]
            /\ UNCHANGED <<knowledge_base, paper2entities, entity_counter,
                           entity_embeddings, use_hybrid_scoring, hybrid_scorer>>

GetRelevantEntitiesWithScores ==
    /\ calls < MaxCalls
    /\ UNCHANGED <<s2Vars, openaiVars, pipelineVars, selection, agentVars>>
    /\ \E paper_ids \in PaperIdLists, top_k \in 0..MaxTopK, weights \in WeightsChoices :
        \E res \in {get_relevant_entities_with_scores(Store, paper_ids, top_k, weights)} :
            /\ calls' = calls + 1
            /\ entity_cooccurrence' = res.entity_cooccurrence
            /\ call' = [NoCall EXCEPT !.op = "get_relevant_entities_with_scores",
                                      !.paper_ids = paper_ids, !.top_k = top_k,
                                      !.weights = weights,
                                      !.raised = res.raised, !.value = res.value]
            /\ UNCHANGED <<knowledge_base, paper2entities, entity_counter,
                           entity_embeddings, use_hybrid_scoring, hybrid_scorer>>

GetScorerConfig ==
    /\ calls < MaxCalls
    /\ UNCHANGED <<s2Vars, openaiVars, pipelineVars, selection, agentVars>>
    /\ calls' = calls + 1
    /\ call' = [NoCall EXCEPT !.op = "get_scorer_config",
                              !.value = get_scorer_config(Store)]
    /\ UNCHANGED <<knowledge_base, paper2entities, entity_counter,
                   entity_cooccurrence, entity_embeddings, use_hybrid_scoring,
                   hybrid_scorer>>

ComputeLocalEmbedding ==
    /\ calls < MaxCalls
    /\ UNCHANGED <<s2Vars, openaiVars, pipelineVars, selection, agentVars>>
    /\ \E local_entities \in AveragedLists, weights \in AveragedWeights :
        \E res \in {_compute_local_embedding(entity_embeddings, local_entities,
                                              weights)} :
            /\ calls' = calls + 1
            /\ call' = [NoCall EXCEPT !.op = "_compute_local_embedding",
                                      !.local_entities = local_entities,
                                      !.weights = weights,
                                      !.raised = res.raised, !.value = res.v]
            /\ UNCHANGED <<knowledge_base, paper2entities, entity_counter,
                           entity_cooccurrence, entity_embeddings,
                           use_hybrid_scoring, hybrid_scorer>>

Next ==
    \/ GetRelevantEntities
    \/ GetRelevantEntitiesWithScores
    \/ GetScorerConfig
    \/ ComputeLocalEmbedding

Spec == Init /\ [][Next]_vars

(***************************************************************************)
(* Direct calls on the HybridScorer of a store.                            *)
(***************************************************************************)
\* a HybridScorer constructed on given tables, without a store's corpus
ConstructedScorer(cooc, counter, emb, cfg) ==
    LET scorer == HybridScorer(cooc, counter, emb, cfg.alpha, cfg.tau, cfg.epsilon,
                               cfg.beta, cfg.r, cfg.threshold)
    IN  /\ knowledge_base = <<>>
        /\ paper2entities = EmptyDict
        /\ entity_counter = scorer.entity_counter
        /\ entity_cooccurrence = scorer.entity_cooccurrence
        /\ entity_embeddings = scorer.entity_embeddings
        /\ use_hybrid_scoring = TRUE
        /\ hybrid_scorer = Some([alpha |-> scorer.alpha, tau |-> scorer.tau,
                                 epsilon |-> scorer.epsilon, beta |-> scorer.beta,
                                 threshold |-> scorer.threshold,
                                 total_counts |-> scorer.total_counts,
                                 r |-> scorer.r])
        /\ call = NoCall
        /\ calls = 0
        /\ Unused

InitScorer ==
    \E kb \in ScorerCorpora, emb \in EmbeddingTables, cfg \in ScorerConfigs :
        Constructed(kb, emb, cfg)

\* the scorer of the scenario, constructed on its tables
InitScenario ==
    \E emb \in EmbeddingTables, cfg \in ScenarioConfigs :
        ConstructedScorer(ScenarioCooccurrence, ScenarioCounter, emb, cfg)

Scorer == ScorerSelf(Store)

ScoreEntity ==
    /\ calls < MaxCalls
    /\ UNCHANGED <<s2Vars, openaiVars, pipelineVars, selection, agentVars>>
    /\ \E entity \in Entities, local_entities \in LocalLists,
          local_embedding \in LocalEmbeddings :
        \E score \in {score_entity(Scorer, entity, local_entities, local_embedding)} :
            /\ calls' = calls + 1
            /\ call' = [NoCall EXCEPT !.op = "score_entity", !.entity = entity,
                                      !.local_entities = local_entities,
                                      !.local_embedding = local_embedding,
                                      !.raised = Raises(score), !.value = score]
            /\ UNCHANGED <<knowledge_base, paper2entities, entity_counter,
                           entity_cooccurrence, entity_embeddings,
                           use_hybrid_scoring, hybrid_scorer>>

ScoreEntitiesBatch ==
    /\ calls < MaxCalls
    /\ UNCHANGED <<s2Vars, openaiVars, pipelineVars, selection, agentVars>>
    /\ \E candidate_entities \in CandidateLists, local_entities \in LocalLists,
          local_embedding \in LocalEmbeddings :
        \E scores \in {score_entities_batch(Scorer, candidate_entities,
                                            local_entities, local_embedding)} :
            /\ calls' = calls + 1
            /\ call' = [NoCall EXCEPT !.op = "score_entities_batch",
                                      !.candidate_entities = candidate_entities,
                                      !.local_entities = local_entities,
                                      !.local_embedding = local_embedding,
                                      !.raised = \E i \in 1..Len(scores) :
                                                    Raises(scores[i][2]),
                                      !.value = scores]
            /\ UNCHANGED <<knowledge_base, paper2entities, entity_counter,
                           entity_cooccurrence, entity_embeddings,
                           use_hybrid_scoring, hybrid_scorer>>

ComputeSmoothedCooccurrenceProb ==
    /\ calls < MaxCalls
    /\ UNCHANGED <<s2Vars, openaiVars, pipelineVars, selection, agentVars>>
    /\ \E entity \in Entities, local_entity \in Entities :
        /\ calls' = calls + 1
        /\ call' = [NoCall EXCEPT !.op = "_compute_smoothed_cooccurrence_prob",
                                  !.entity = entity, !.local_entity = local_entity,
                                  !.value = _compute_smoothed_cooccurrence_prob(
                                                Scorer, entity, local_entity)]
        /\ UNCHANGED <<knowledge_base, paper2entities, entity_counter,
                       entity_cooccurrence, entity_embeddings,
                       use_hybrid_scoring, hybrid_scorer>>

SelectFactor ==
    /\ calls < MaxCalls
    /\ UNCHANGED <<s2Vars, openaiVars, pipelineVars, selection, agentVars>>
    /\ \E entity \in Entities, local_entity \in Entities :
        /\ calls' = calls + 1
        /\ call' = [NoCall EXCEPT !.op = "_select_factor",
                                  !.entity = entity, !.local_entity = local_entity,
                                  !.value = _select_factor(Scorer, entity, local_entity)]
        /\ UNCHANGED <<knowledge_base, paper2entities, entity_counter,
                       entity_cooccurrence, entity_embeddings,
                       use_hybrid_scoring, hybrid_scorer>>

ComputeEmbeddingFallbackProb ==
    /\ calls < MaxCalls
    /\ UNCHANGED <<s2Vars, openaiVars, pipelineVars, selection, agentVars>>
    /\ \E entity \in Entities, local_entity \in Entities :
        /\ calls' = calls + 1
        /\ call' = [NoCall EXCEPT !.op = "_compute_embedding_fallback_prob",
                                  !.entity = entity, !.local_entity = local_entity,
                                  !.value = _compute_embedding_fallback_prob(
                                                Scorer, entity, local_entity)]
        /\ UNCHANGED <<knowledge_base, paper2entities, entity_counter,
                       entity_cooccurrence, entity_embeddings,
                       use_hybrid_scoring, hybrid_scorer>>

ComputeLogLikelihood ==
    /\ calls < MaxCalls
    /\ UNCHANGED <<s2Vars, openaiVars, pipelineVars, selection, agentVars>>
    /\ \E entity \in Entities, local_entities \in LocalLists :
        \E terms \in {_compute_log_likelihood(Scorer, entity, local_entities)} :
            /\ calls' = calls + 1
            /\ call' = [NoCall EXCEPT !.op = "_compute_log_likelihood",
                                      !.entity = entity,
                                      !.local_entities = local_entities,
                                      !.raised = Raises(terms), !.value = terms]
            /\ UNCHANGED <<knowledge_base, paper2entities, entity_counter,
                           entity_cooccurrence, entity_embeddings,
                           use_hybrid_scoring, hybrid_scorer>>

NextScorer ==
    \/ ScoreEntity
    \/ ScoreEntitiesBatch
    \/ ComputeSmoothedCooccurrenceProb
    \/ SelectFactor
    \/ ComputeEmbeddingFallbackProb
    \/ ComputeLogLikelihood

SpecScorer == InitScorer /\ [][NextScorer]_vars

SpecScenario == InitScenario /\ [][NextScorer]_vars

(***************************************************************************)
(* Claims.                                                                 *)
(***************************************************************************)
\* the score the last score_entity call would have returned with another
\* embedding table and another local embedding
ScoreWith(emb, local_embedding) ==
    score_entity([Scorer EXCEPT !.entity_embeddings = emb], call.entity,
                 call.local_entities, local_embedding)

\* the ranking the last score_entities_batch call would have returned
RankingWith(emb, local_embedding) ==
    DictKeys(score_entities_batch([Scorer EXCEPT !.entity_embeddings = emb],
                                  call.candidate_entities, call.local_entities,
                                  local_embedding))

\* C1: with beta = 0 the score score_entity returns, and the ranking
\* score_entities_batch returns, are the same for every embedding table and
\* every local embedding, the co-occurrence table, the counts, the
\* configuration and the local list being those of the call.
C1_BetaZeroIgnoresEmbeddings ==
    RatIsZero(Scorer.beta) =>
        /\ call.op = "score_entity" =>
              \A emb \in AllEmbeddingTables, local_embedding \in LocalEmbeddings :
                  CmpScore(ScoreWith(emb, local_embedding), call.value) = 0
        /\ call.op = "score_entities_batch" =>
              \A emb \in AllEmbeddingTables, local_embedding \in LocalEmbeddings :
                  RankingWith(emb, local_embedding) = DictKeys(call.value)

\* count(e) + alpha * r of the last call's entity
SmoothingDenominator ==
    RatAdd(RatInt(Get(Scorer.entity_counter, call.entity, 0)),
           RatMul(Scorer.alpha, RatInt(Scorer.r)))

\* C2: on the statistics of a corpus, with alpha > 0, epsilon > 0 and r the
\* total of the counts, _compute_smoothed_cooccurrence_prob returns a value
\* in (0, 1], and returns epsilon exactly when count(e) + alpha * r is 0.
C2_SmoothedProbInUnitInterval ==
    (/\ call.op = "_compute_smoothed_cooccurrence_prob"
     /\ RatLess(RatInt(0), Scorer.alpha)
     /\ RatLess(RatInt(0), Scorer.epsilon)
     /\ Scorer.r = Scorer.total_counts) =>
        /\ RatLess(RatInt(0), call.value)
        /\ RatLeq(call.value, RatInt(1))
        /\ (call.value = Scorer.epsilon) <=> RatIsZero(SmoothingDenominator)

\* the entities a query returned
Returned ==
    IF call.op = "get_relevant_entities" THEN call.value
    ELSE IF call.op = "get_relevant_entities_with_scores" THEN DictKeys(call.value)
    ELSE <<>>

IsQuery == call.op \in {"get_relevant_entities", "get_relevant_entities_with_scores"}

\* the local set of the last query: the entities of the documents named by
\* the ids the corpus knows
LocalSet ==
    {e \in Entities :
        \E i \in 1..Len(call.paper_ids), j \in 1..Len(knowledge_base) :
            /\ knowledge_base[j].corpusid = call.paper_ids[i]
            /\ Get(knowledge_base[j].knowledge, e, 0) >= 1}

\* the co-occurrence weight of e in the row of the local entity l
Weight(l, e) == Get(Get(entity_cooccurrence, l, EmptyDict), e, 0)

\* C3: every entity a query returns, and every entity of its candidate pool,
\* has co-occurrence weight >= 1 with some entity of the local set, whatever
\* top_k, the strategy and the embeddings.
C3_ReturnedCooccurWithLocal ==
    IsQuery =>
        /\ \A i \in 1..Len(Returned) : \E l \in LocalSet : Weight(l, Returned[i]) >= 1
        /\ LET pool == CandidatePool(entity_cooccurrence,
                                     PaperEntitiesList(Store, call.paper_ids))
           IN  \A i \in 1..Len(pool) : \E l \in LocalSet : Weight(l, pool[i]) >= 1

\* a query with top_k above the number of entities returned some entities and
\* left out an entity of the corpus that has an embedding
C3_Witness ==
    /\ IsQuery
    /\ ~call.raised
    /\ Returned # <<>>
    /\ call.top_k >= Len(EntityList)
    /\ \E e \in (KeySet(entity_embeddings) \cap KeySet(entity_counter)) \ LocalSet :
          /\ \A i \in 1..Len(Returned) : Returned[i] # e
          /\ \A l \in LocalSet : Weight(l, e) = 0

\* C4: get_relevant_entities_with_scores returns the entities that
\* get_relevant_entities returns for the same store, ids, top_k and weights,
\* in the same order, with scores that do not increase along the list; one
\* raises when the other does.
C4_WithScoresMatchesEntities ==
    call.op = "get_relevant_entities_with_scores" =>
        LET entities == get_relevant_entities(Store, call.paper_ids, call.top_k,
                                              call.weights)
        IN  /\ call.raised = entities.raised
            /\ DictKeys(call.value) = entities.value
            /\ \A i \in 1..(Len(call.value) - 1) :
                  CmpScore(call.value[i][2], call.value[i + 1][2]) >= 0

\* the hybrid strategy returned fewer entities than the pool holds, with
\* scores that decrease
C4_Witness ==
    /\ call.op = "get_relevant_entities_with_scores"
    /\ use_hybrid_scoring
    /\ ~call.raised
    /\ Len(call.value) >= 2
    /\ Len(call.value) <
          Len(CandidatePool(entity_cooccurrence, PaperEntitiesList(Store, call.paper_ids)))
    /\ CmpScore(call.value[1][2], call.value[2][2]) > 0

\* C5: a query whose local set is empty has an empty candidate pool and
\* returns the empty list without raising, under either strategy.
C5_EmptyLocalSetGivesEmptyList ==
    (IsQuery /\ LocalSet = {}) =>
        /\ ~call.raised
        /\ call.value = <<>>
        /\ CandidatePool(entity_cooccurrence,
                         PaperEntitiesList(Store, call.paper_ids)) = <<>>

\* a hybrid query with weights, for an id the corpus does not know, on a
\* corpus that has entities and embeddings
C5_Witness ==
    /\ IsQuery
    /\ LocalSet = {}
    /\ call.paper_ids # <<>>
    /\ call.top_k > 0
    /\ call.weights # None
    /\ use_hybrid_scoring
    /\ entity_counter # <<>>
    /\ entity_embeddings # <<>>
    /\ call.value = <<>>

\* the scores the last scorer call returned
Scores ==
    IF call.op = "score_entity" THEN <<call.value>>
    ELSE IF call.op = "score_entities_batch"
    THEN List([i \in 1..Len(call.value) |-> call.value[i][2]])
    ELSE <<>>

\* C6: with epsilon > 0 the argument of every logarithm taken for a score is
\* at least epsilon, whatever the candidate, the local list and the embedding
\* table, so that score_entity does not raise.
C6_LogArgumentsAtLeastEpsilon ==
    RatLess(RatInt(0), Scorer.epsilon) =>
        /\ ~call.raised
        /\ \A i \in 1..Len(Scores) : \A j \in 1..Len(Scores[i]) :
              /\ Scores[i][j].ok
              /\ ArgAtLeast(Scores[i][j].x, Scorer.epsilon)

\* score_entity on a candidate the corpus does not hold and the table has no
\* vector for, with a local list and a local embedding
C6_Witness ==
    /\ call.op = "score_entity"
    /\ ~Has(entity_counter, call.entity)
    /\ ~Has(entity_embeddings, call.entity)
    /\ entity_embeddings # <<>>
    /\ call.local_entities # <<>>
    /\ call.local_embedding # None
    /\ call.local_embedding # Some(<<>>)
    /\ \E j \in 1..Len(call.value) :
          ~ArgAtLeast(call.value[j].x, RatAdd(Scorer.epsilon, Scorer.epsilon))

\* the scorers that share the embedding table and epsilon of the scorer and
\* have beta = 1
OtherScorers ==
    {HybridScorer(build_entity_statistics(kb)[2], build_entity_statistics(kb)[1],
                  Scorer.entity_embeddings, cfg.alpha, cfg.tau, Scorer.epsilon,
                  RatInt(1), cfg.r, cfg.threshold) :
        kb \in ScorerCorpora, cfg \in ScorerConfigs}

\* the embedding signal of the last score_entity call
EmbeddingSignal ==
    IF call.local_embedding = None \/ Len(call.local_embedding[1]) = 0
    THEN <<MathLog(Scorer.epsilon)>>
    ELSE _compute_log_embedding_relevance(Scorer, call.entity, call.local_embedding[1])

\* C7: with beta = 1 the score of a candidate is its log embedding relevance,
\* and it is the same for every co-occurrence table, counts, alpha, r,
\* threshold and local list, the embedding table, the local embedding and
\* epsilon being those of the call.
C7_BetaOneIgnoresCooccurrence ==
    (call.op = "score_entity" /\ Scorer.beta = RatInt(1)) =>
        /\ CmpScore(call.value, EmbeddingSignal) = 0
        /\ \A other \in OtherScorers, local_entities \in LocalLists :
              CmpScore(score_entity(other, call.entity, local_entities,
                                    call.local_embedding),
                       call.value) = 0

\* a call with beta = 1 on a candidate with counts, co-occurrences and a
\* vector, with a local list and a local embedding
C7_Witness ==
    /\ call.op = "score_entity"
    /\ Scorer.beta = RatInt(1)
    /\ Has(entity_counter, call.entity)
    /\ Has(entity_embeddings, call.entity)
    /\ call.local_entities # <<>>
    /\ call.local_embedding \notin {None, Some(<<>>)}
    /\ \E i \in 1..Len(call.local_entities) :
          CooccurrenceCount(Scorer, call.entity, call.local_entities[i]) >= 1

\* CooccurrenceTable[e][l] read off the corpus: the weights of l in the
\* documents that hold both e and l
PairWeight(e, l) ==
    SumRange([j \in 1..Len(knowledge_base) |->
                 IF e # l /\ Has(knowledge_base[j].knowledge, e)
                 THEN Get(knowledge_base[j].knowledge, l, 0) ELSE 0],
             1, Len(knowledge_base))

\* C8: _select_factor returns the smoothed co-occurrence conditional when the
\* co-occurrence weight of the pair is at least the threshold and the
\* embedding-based conditional otherwise; with a threshold above every weight
\* of the table each factor of a candidate's likelihood is the embedding
\* fallback.
C8_SelectFactorSwitchesAtThreshold ==
    /\ call.op = "_select_factor" =>
          call.value =
              IF PairWeight(call.entity, call.local_entity) >= Scorer.threshold
              THEN _compute_smoothed_cooccurrence_prob(Scorer, call.entity,
                                                      call.local_entity)
              ELSE _compute_embedding_fallback_prob(Scorer, call.entity,
                                                    call.local_entity)
    /\ (/\ call.op = "score_entity"
        /\ \A e, l \in Entities : PairWeight(e, l) < Scorer.threshold) =>
          \A i \in 1..Len(call.local_entities) :
              call.value[1 + i].x =
                  MathLog(RatMax(Scorer.epsilon,
                                 _compute_embedding_fallback_prob(
                                     Scorer, call.entity, call.local_entities[i]))).x

\* a pair whose weight is the threshold, where the two conditionals differ
C8_Witness ==
    /\ call.op = "_select_factor"
    /\ Scorer.threshold >= 1
    /\ PairWeight(call.entity, call.local_entity) = Scorer.threshold
    /\ _compute_smoothed_cooccurrence_prob(Scorer, call.entity, call.local_entity)
          # _compute_embedding_fallback_prob(Scorer, call.entity, call.local_entity)
    /\ Has(entity_embeddings, call.entity)
    /\ Has(entity_embeddings, call.local_entity)

\* the last query, made again on a store
Again(store) ==
    IF call.op = "get_relevant_entities"
    THEN get_relevant_entities(store, call.paper_ids, call.top_k, call.weights)
    ELSE get_relevant_entities_with_scores(store, call.paper_ids, call.top_k,
                                           call.weights)

\* the store after two other queries: one for the first document, one for
\* the last document and an id the corpus does not know
AfterOtherQueries ==
    LET first == [Store EXCEPT !.entity_cooccurrence = AccessedTable(Store, <<1>>)]
    IN  [first EXCEPT !.entity_cooccurrence =
                          AccessedTable(first, <<MaxDocs, MaxDocs + 1>>)]

C10_QueriesLeaveStoreUnchanged ==
    [][UNCHANGED <<paper2entities, entity_counter, entity_cooccurrence,
                   entity_embeddings, use_hybrid_scoring, hybrid_scorer>>]_vars

\* a legacy query was made for a document that holds one entity only,
\* together with an id the corpus does not know
C10_Witness ==
    /\ IsQuery
    /\ ~use_hybrid_scoring
    /\ \E i, k \in 1..Len(call.paper_ids), j \in 1..Len(knowledge_base) :
          /\ knowledge_base[j].corpusid = call.paper_ids[i]
          /\ Len(knowledge_base[j].knowledge) = 1
          /\ call.paper_ids[k] > Len(knowledge_base)

\* the weight of e in document j of the corpus, 0 when the document has no e
DocWeight(j, e) == Get(knowledge_base[j].knowledge, e, 0)

\* the sum of e2's weight over the documents that hold both e and e2
WeightWhereBoth(e, e2) ==
    SumRange([j \in 1..Len(knowledge_base) |->
                 IF Has(knowledge_base[j].knowledge, e)
                    /\ Has(knowledge_base[j].knowledge, e2)
                 THEN DocWeight(j, e2) ELSE 0],
             1, Len(knowledge_base))

\* the sum of e's weight over the documents
TotalWeight(e) ==
    SumRange([j \in 1..Len(knowledge_base) |-> DocWeight(j, e)],
             1, Len(knowledge_base))

Cosine(e, l) ==
    _cosine_similarity(Get(entity_embeddings, e, <<>>), Get(entity_embeddings, l, <<>>))

BothEmbedded(e, l) == Has(entity_embeddings, e) /\ Has(entity_embeddings, l)

\* C12: _compute_embedding_fallback_prob returns epsilon when either entity
\* has no embedding, and max(epsilon, tau * (s + 1) / 2) for the cosine
\* similarity s otherwise: a value that does not decrease when s increases,
\* is at most max(tau, epsilon), and for s = 1 and epsilon <= tau < 1 is at
\* most tau and not 1.
C12_FallbackProbMonotoneBoundedByTau ==
    call.op = "_compute_embedding_fallback_prob" =>
        IF ~BothEmbedded(call.entity, call.local_entity)
        THEN call.value = Scorer.epsilon
        ELSE LET s == Cosine(call.entity, call.local_entity)
             IN  /\ call.value =
                        RatMax(Scorer.epsilon,
                               RatDiv(RatMul(Scorer.tau, RatAdd(s, RatInt(1))),
                                      RatInt(2)))
                 /\ RatLeq(call.value, RatMax(Scorer.tau, Scorer.epsilon))
                 /\ \A e \in Entities, l \in Entities :
                        (BothEmbedded(e, l) /\ RatLeq(s, Cosine(e, l))) =>
                            RatLeq(call.value,
                                   _compute_embedding_fallback_prob(Scorer, e, l))
                 /\ (/\ s = RatInt(1)
                     /\ RatLess(Scorer.tau, RatInt(1))
                     /\ RatLeq(Scorer.epsilon, Scorer.tau)) =>
                        /\ RatLeq(call.value, Scorer.tau)
                        /\ call.value # RatInt(1)

\* the fallback probability of a perfect match, with tau < 1 above epsilon
C12_Witness ==
    /\ call.op = "_compute_embedding_fallback_prob"
    /\ BothEmbedded(call.entity, call.local_entity)
    /\ call.entity # call.local_entity
    /\ Cosine(call.entity, call.local_entity) = RatInt(1)
    /\ RatLess(Scorer.epsilon, Scorer.tau)
    /\ RatLess(Scorer.tau, RatInt(1))
    /\ call.value = Scorer.tau

\* the embedding of e is a vector of zero norm
ZeroNorm(e) == RatIsZero(Norm(Get(entity_embeddings, e, <<>>)))

\* the positions of the last _compute_log_likelihood call's local list whose
\* pair takes the embedding conditional, both entities having an embedding
\* and one of them a vector of zero norm
ZeroNormPositions ==
    {i \in 1..Len(call.local_entities) :
        /\ BothEmbedded(call.entity, call.local_entities[i])
        /\ ZeroNorm(call.entity) \/ ZeroNorm(call.local_entities[i])
        /\ CooccurrenceCount(Scorer, call.entity, call.local_entities[i])
               < Scorer.threshold}

\* C13 (as stated): for such a pair the cosine similarity is 0 and the pair's
\* term in the log-likelihood is 0.
C13_ZeroNormPairContributesZero ==
    call.op = "_compute_log_likelihood" =>
        \A i \in ZeroNormPositions :
            /\ Cosine(call.entity, call.local_entities[i]) = RatInt(0)
            /\ CmpScore(<<call.value[i]>>, <<>>) = 0

\* C13 (amended): for such a pair the cosine similarity is 0, the embedding
\* conditional is max(epsilon, tau / 2) and the pair's term in the
\* log-likelihood is the logarithm of that value.
C13_ZeroNormPairContributesLogHalfTau ==
    call.op = "_compute_log_likelihood" =>
        \A i \in ZeroNormPositions :
            /\ Cosine(call.entity, call.local_entities[i]) = RatInt(0)
            /\ call.value[i] =
                   MathLog(RatMax(Scorer.epsilon, RatDiv(Scorer.tau, RatInt(2))))

\* a log-likelihood over a local list that holds an entity whose embedding
\* has zero norm, for a candidate whose embedding has not
C13_Witness ==
    /\ call.op = "_compute_log_likelihood"
    /\ ZeroNormPositions # {}
    /\ ~ZeroNorm(call.entity)
    /\ RatLess(Scorer.epsilon, RatDiv(Scorer.tau, RatInt(2)))

\* the scorer holds the statistics A:10, B:5, C:2 (total 17) with weight 3 of
\* B in the row of A, alpha = 0.01, r = 17 and threshold = 1
InScenario ==
    /\ entity_counter = ScenarioCounter
    /\ entity_cooccurrence = ScenarioCooccurrence
    /\ Scorer.alpha = Rat(1, 100)
    /\ Scorer.r = 17
    /\ Scorer.total_counts = 17
    /\ Scorer.threshold = 1

\* a rational q >= 0 rounded to five decimals, as an integer number of 1e-5
FiveDecimals(q) == (2 * q[1] * 100000 + q[2]) \div (2 * q[2])

\* the values of the scenario other than the decimal expansion: the
\* conditional selected for (A, B) is the smoothed one, 301/1017; the prior of
\* A is 10/17; with beta = 0 the score of A for the local list [B] is
\* log(10/17) + log(301/1017)
ScenarioValues ==
    /\ (call.op = "_select_factor" /\ call.entity = "A" /\ call.local_entity = "B") =>
           /\ call.value = _compute_smoothed_cooccurrence_prob(Scorer, "A", "B")
           /\ call.value = Rat(301, 1017)
    /\ (call.op = "score_entity" /\ call.entity = "A"
                                /\ call.local_entities = <<"B">>) =>
           /\ _compute_log_prior(Scorer, "A") = <<MathLog(Rat(10, 17))>>
           /\ RatIsZero(Scorer.beta) =>
                  CmpScore(call.value,
                           <<MathLog(Rat(10, 17)), MathLog(Rat(301, 1017))>>) = 0

\* C14 (as stated): in the scenario the smoothed conditional of (A, B) is
\* 301/1017, which is 0.29606 to five decimals; the prior of A is 10/17 and
\* with beta = 0 the score of A is log prior + log conditional.
C14_ScenarioConditionalIs29606 ==
    InScenario =>
        /\ ScenarioValues
        /\ (call.op = "_select_factor" /\ call.entity = "A"
                                       /\ call.local_entity = "B") =>
               FiveDecimals(call.value) = 29606

\* C14 (amended): the same, the conditional 301/1017 being 0.29597 to five
\* decimals.
C14_ScenarioConditionalIs29597 ==
    InScenario =>
        /\ ScenarioValues
        /\ (call.op = "_select_factor" /\ call.entity = "A"
                                       /\ call.local_entity = "B") =>
               FiveDecimals(call.value) = 29597

\* the conditional of (A, B) was selected in the scenario
C14_Witness ==
    /\ InScenario
    /\ call.op = "_select_factor"
    /\ call.entity = "A"
    /\ call.local_entity = "B"
    /\ RatIsZero(Scorer.beta)

\* the local list and the candidate pool of the last query
QueryLocalList == PaperEntitiesList(Store, call.paper_ids)
QueryPool == CandidatePool(entity_cooccurrence, QueryLocalList)

\* the score of each candidate of the pool, in the order of the pool, under
\* the strategy of the store
PoolScores ==
    LET local == QueryLocalList
        pool == QueryPool
    IN  IF use_hybrid_scoring /\ hybrid_scorer # None
        THEN LET local_embedding ==
                     _compute_local_embedding(entity_embeddings, local, call.weights)
             IN  List([i \in 1..Len(pool) |->
                         score_entity(Scorer, pool[i], local, Some(local_embedding.v))])
        ELSE List([i \in 1..Len(pool) |-> LegacyScore(Store, pool[i], local).score])

\* the pool as the stable descending sort must order it: the sequence of
\* pool positions in which position a comes before position b exactly when
\* a's score is larger, or the scores are equal and a < b
IsStableDescending(order, keys) ==
    /\ Len(order) = Len(keys)
    /\ \A a \in 1..Len(keys) : \E i \in 1..Len(order) : order[i] = a
    /\ \A i, j \in 1..Len(order) :
           i < j => \/ CmpExp(keys[order[i]], keys[order[j]]) > 0
                    \/ /\ CmpExp(keys[order[i]], keys[order[j]]) = 0
                       /\ order[i] < order[j]

\* C15: a query that does not raise returns the first top_k entities of the
\* candidate pool taken in descending order of score, candidates of equal
\* score in the order of the pool, each candidate at most once; with scores,
\* each entity comes with its own score.  Hybrid and legacy alike.
C15_RankingIsStableDescendingPrefix ==
    (IsQuery /\ ~call.raised) =>
        LET pool == QueryPool
            scores == PoolScores
            D == ItemsDen(List([i \in 1..Len(pool) |-> <<pool[i], scores[i]>>]))
            keys == List([i \in 1..Len(pool) |-> Exp(scores[i], D)])
            returned == Returned
        IN  /\ Len(returned) = (IF call.top_k < Len(pool) THEN call.top_k ELSE Len(pool))
            /\ \E order \in [1..Len(pool) -> 1..Len(pool)] :
                   /\ IsStableDescending(order, keys)
                   /\ \A i \in 1..Len(returned) : returned[i] = pool[order[i]]
                   /\ (call.op = "get_relevant_entities_with_scores"
                       /\ use_hybrid_scoring) =>
                          \A i \in 1..Len(returned) :
                              call.value[i][2] = scores[order[i]]

\* a hybrid query returned, with their scores, two entities of equal score
\* and a third of another score
C15_Witness ==
    /\ call.op = "get_relevant_entities_with_scores"
    /\ use_hybrid_scoring
    /\ ~call.raised
    /\ \E i, j, k \in 1..Len(call.value) :
          /\ i < j
          /\ CmpScore(call.value[i][2], call.value[j][2]) = 0
          /\ CmpScore(call.value[i][2], call.value[k][2]) # 0

\* the number of occurrences of e in a list
Occurrences(list, e) == Cardinality({i \in 1..Len(list) : list[i] = e})

\* the sum, over the positions of the last query's id list and the documents
\* of the corpus with the id of the position, of e's weight in the document
ListedWeight(e) ==
    SumRange([i \in 1..Len(call.paper_ids) |->
                 SumRange([j \in 1..Len(knowledge_base) |->
                              IF knowledge_base[j].corpusid = call.paper_ids[i]
                              THEN DocWeight(j, e) ELSE 0],
                          1, Len(knowledge_base))],
             1, Len(call.paper_ids))

UnknownIds ==
    {i \in 1..Len(call.paper_ids) :
        \A j \in 1..Len(knowledge_base) :
            knowledge_base[j].corpusid # call.paper_ids[i]}

\* C16: the local list of a query holds each entity as many times as the sum
\* of its weight over the listed ids the corpus knows, an id listed twice
\* counting twice; it holds nothing else, and a query without weights does
\* not raise, whatever ids it lists.
C16_LocalSetSumsKnownDocuments ==
    IsQuery =>
        LET local == QueryLocalList
        IN  /\ \A e \in Entities : Occurrences(local, e) = ListedWeight(e)
            /\ \A i \in 1..Len(local) : local[i] \in Entities
            /\ call.weights = None => ~call.raised

\* a query listed a known document that gives an entity the weight 2 or
\* more, and an id the corpus does not know
C16_Witness ==
    /\ IsQuery
    /\ call.weights = None
    /\ UnknownIds # {}
    /\ \E e \in Entities : Occurrences(QueryLocalList, e) >= 2

\* the log-likelihood of the last call's candidate for another local list
LogLikelihoodOf(local_entities) ==
    _compute_log_likelihood(Scorer, call.entity, local_entities)

Reverse(list) == List([i \in 1..Len(list) |-> list[Len(list) + 1 - i]])

\* for each entity, its number of occurrences in the local list times the
\* log-likelihood of the list that holds it once
ByMultiplicity(local_entities) ==
    LET part(i) == Scale(RatInt(Occurrences(local_entities, EntityList[i])),
                         LogLikelihoodOf(<<EntityList[i]>>))
    IN  part(1) \o part(2) \o part(3)

\* C17: _compute_log_likelihood adds one term log(max(epsilon,
\* _select_factor(e, x))) per element x of the local list: an entity that
\* occurs m times contributes m times its term, the sum is the same for the
\* list in the reverse order, and the empty list gives the empty sum 0.
C17_LogLikelihoodOneTermPerOccurrence ==
    call.op = "_compute_log_likelihood" =>
        LET local == call.local_entities
        IN  /\ Len(call.value) = Len(local)
            /\ \A i \in 1..Len(local) :
                   call.value[i] =
                       MathLog(RatMax(Scorer.epsilon,
                                      _select_factor(Scorer, call.entity, local[i])))
            /\ CmpScore(call.value, ByMultiplicity(local)) = 0
            /\ CmpScore(call.value, LogLikelihoodOf(Reverse(local))) = 0
            /\ local = <<>> => call.value = <<>>

\* a log-likelihood over a list that holds one entity twice, and one over a
\* list of two entities whose terms differ
C17_Witness ==
    /\ call.op = "_compute_log_likelihood"
    /\ Len(call.local_entities) = MaxLocal
    /\ \/ /\ call.local_entities[1] = call.local_entities[2]
          /\ CmpScore(call.value, <<>>) < 0
       \/ /\ call.local_entities[1] # call.local_entities[2]
          /\ call.value[1] # call.value[2]

\* the positions of the last call's local list whose entity has an embedding
Embedded ==
    {i \in 1..Len(call.local_entities) : Has(entity_embeddings, call.local_entities[i])}

\* component j of the embedding of the local entity at position i
Component(i, j) == Get(entity_embeddings, call.local_entities[i], <<>>)[j]

\* the sum over the positions in P of w[i] * Component(i, j)
RECURSIVE WeightedSum(_, _, _)
WeightedSum(P, w, j) ==
    IF P = {} THEN RatInt(0)
    ELSE LET i == CHOOSE x \in P : TRUE
         IN  RatAdd(RatMul(RatInt(w[i]), Component(i, j)),
                    WeightedSum(P \ {i}, w, j))

Ones == [i \in 1..Len(call.local_entities) |-> 1]

\* C18: _compute_local_embedding returns the empty array exactly when no
\* local entity has an embedding, and does not raise then; without weights
\* it returns the sum of the embeddings of the local entities that have one
\* divided by their number; and for the empty array the last term of
\* score_entity, the embedding term, is beta * log(epsilon) for every
\* candidate.
C18_LocalEmbeddingAveragesEmbeddedOnly ==
    call.op = "_compute_local_embedding" =>
        /\ Embedded = {} => (~call.raised /\ call.value = <<>>)
        /\ (Embedded # {} /\ ~call.raised) => call.value # <<>>
        /\ (Embedded # {} /\ call.weights = None) =>
               /\ ~call.raised
               /\ \A j \in 1..Len(call.value) :
                      call.value[j] =
                          RatDiv(WeightedSum(Embedded, Ones, j),
                                 RatInt(Cardinality(Embedded)))
        /\ (call.value = <<>> /\ hybrid_scorer # None) =>
               \A e \in Entities :
                   LET score == score_entity(Scorer, e, call.local_entities,
                                             Some(call.value))
                   IN  score[Len(score)] =
                           [MathLog(Scorer.epsilon) EXCEPT !.c = Scorer.beta]

\* an average without weights over a list in which one entity has an
\* embedding that is not zero and another has none
C18_Witness ==
    /\ call.op = "_compute_local_embedding"
    /\ call.weights = None
    /\ Embedded # {}
    /\ \E i \in 1..Len(call.local_entities) : i \notin Embedded
    /\ ~RatIsZero(call.value[1])

\* the sum of w[i] over the positions in P
RECURSIVE WeightOf(_, _)
WeightOf(P, w) ==
    IF P = {} THEN 0
    ELSE LET i == CHOOSE x \in P : TRUE IN w[i] + WeightOf(P \ {i}, w)

\* C19: with weights as long as the local list, _compute_local_embedding does
\* not raise and returns the mean of the embeddings of the local entities
\* that have one, each weighted by the weight at its own position in the
\* list and the weights normalized by their sum over those positions.
C19_WeightsFollowOwnPositions ==
    (/\ call.op = "_compute_local_embedding"
     /\ call.weights # None
     /\ Embedded # {}) =>
        (Len(call.weights[1]) = Len(call.local_entities) =>
            /\ ~call.raised
            /\ \A j \in 1..Len(call.value) :
                   call.value[j] =
                       RatDiv(WeightedSum(Embedded, call.weights[1], j),
                              RatInt(WeightOf(Embedded, call.weights[1]))))

\* C20: the candidate pool of a query holds, each once, exactly the entities
\* that have co-occurrence weight >= 1 in the row of some entity of the local
\* set; entities of the local set are not left out.
C20_PoolIsOneHopNeighbourhood ==
    IsQuery =>
        LET pool == QueryPool
        IN  /\ {pool[i] : i \in 1..Len(pool)} =
                   {e \in Entities : \E l \in LocalSet : Weight(l, e) >= 1}
            /\ \A i, j \in 1..Len(pool) : pool[i] = pool[j] => i = j

\* the pool of a query holds an entity of the local set and leaves out an
\* entity of the corpus
C20_Witness ==
    /\ IsQuery
    /\ \E i \in 1..Len(QueryPool) : QueryPool[i] \in LocalSet
    /\ \E e \in KeySet(entity_counter) : \A i \in 1..Len(QueryPool) : QueryPool[i] # e

\* the position in the pool of an entity of the pool
PoolIndex(e) == CHOOSE i \in 1..Len(QueryPool) : QueryPool[i] = e

C22_CandidateHasSmoothedFactor ==
    (IsQuery /\ use_hybrid_scoring /\ hybrid_scorer # None
             /\ Scorer.threshold <= 1) =>
        LET pool == QueryPool
            local == QueryLocalList
            scores == PoolScores
        IN  \A i \in 1..Len(pool) :
                \E p \in 1..Len(local) :
                    /\ Weight(pool[i], local[p]) >= Scorer.threshold
                    /\ Weight(local[p], pool[i]) >= 1
                    /\ scores[i][1 + p].x =
                           MathLog(RatMax(Scorer.epsilon,
                                          _compute_smoothed_cooccurrence_prob(
                                              Scorer, pool[i], local[p]))).x

\* a hybrid query whose pool holds a candidate that has weight 0 with one
\* local entity and weight >= 1 with another, in a table that is not symmetric
C22_Witness ==
    /\ IsQuery
    /\ use_hybrid_scoring
    /\ \E i \in 1..Len(QueryPool), l1, l2 \in LocalSet :
          /\ Weight(QueryPool[i], l1) = 0
          /\ Weight(QueryPool[i], l2) >= 1
          /\ Weight(QueryPool[i], l2) # Weight(l2, QueryPool[i])

\* C23: get_relevant_entities, when it does not raise, returns
\* min(top_k, size of the candidate pool) entities, none of them twice.
C23_ReturnsMinTopKPoolDistinct ==
    (call.op = "get_relevant_entities" /\ ~call.raised) =>
        /\ Len(call.value) =
               (IF call.top_k < Len(QueryPool) THEN call.top_k ELSE Len(QueryPool))
        /\ \A i, j \in 1..Len(call.value) : call.value[i] = call.value[j] => i = j

\* a query with 0 < top_k below the size of its pool
C23_Witness ==
    /\ call.op = "get_relevant_entities"
    /\ ~call.raised
    /\ call.top_k >= 1
    /\ call.top_k < Len(QueryPool)
    /\ Len(call.value) = call.top_k

(***************************************************************************)
(* utils/s2.py: the module-wide rate limiter and the retrying request      *)
(* helper. Time is counted in ticks of time.monotonic().                   *)
(***************************************************************************)
TicksPerSecond == 2
MaxThreads == 3
MaxPasses == 2
MaxAttempts == 3
MaxTime == 4

_MIN_INTERVAL == 1 * TicksPerSecond

exceptS2 == <<storeVars, openaiVars, pipelineVars, selection, agentVars>>

\* a thread that is not in a call, with the locals of the calls, the place
\* _ensure_rate_limit returns to, and the events it went through
IdleThread ==
    [pc |-> "idle", ret |-> "", passes |-> 0, method |-> "", max_attempts |-> 0,
     return_type |-> "", attempt |-> 0, now |-> 0, wait |-> 0, wake |-> 0,
     resp |-> 0, returned |-> None, raised |-> "", trace |-> <<>>]

Event(ev, attempt, status, seconds) ==
    [ev |-> ev, attempt |-> attempt, status |-> status, seconds |-> seconds,
     at |-> clock]

LockIgnored(lock) == TRUE

\* threading.Lock: `with _rate_lock` enters only while nobody holds the lock
LockFree(lock) == lock = 0

BackoffLinear(attempt) == attempt

\* backoff = 2 ** (attempt - 1)
Backoff(attempt) == 2 ^ (attempt - 1)

\* the module after import, with the threads that will call into it
ImportedS2(callers) ==
    /\ NoStore
    /\ _last_request_time = 0
    /\ _rate_lock = 0
    /\ clock = 0
    /\ threads = [t \in callers |-> IdleThread]
    /\ written = <<>>
    /\ _client = "none"
    /\ openai_call = <<>>
    /\ context = <<>>
    /\ history = <<>>
    /\ pipeline = <<>>
    /\ selection = <<>>
    /\ messages = <<>>
    /\ generated = <<>>
    /\ agent_runs = <<>>

InitS2 == ImportedS2(1..MaxThreads)

\* the thread of the calls of _request_with_retries
RetryCallers == {1}

InitRetries == ImportedS2(RetryCallers)

\* a thread calls _ensure_rate_limit
EnsureRateLimit(t) ==
    /\ threads[t].pc = "idle"
    /\ threads[t].passes < MaxPasses
    /\ threads' = [threads EXCEPT ![t].pc = "acquire", ![t].ret = "idle"]
    /\ UNCHANGED <<_last_request_time, _rate_lock, clock, written, exceptS2>>

\* _ensure_rate_limit: with _rate_lock
AcquireRateLock(t) ==
    /\ threads[t].pc = "acquire"
    /\ LockFree(_rate_lock)
    /\ _rate_lock' = t
    /\ threads' = [threads EXCEPT ![t].pc = "locked"]
    /\ UNCHANGED <<_last_request_time, clock, written, exceptS2>>

\* _ensure_rate_limit: now, wait, and the start of time.sleep(wait)
ComputeWait(t) ==
    LET th == threads[t]
        now == clock
        wait == _MIN_INTERVAL - (now - _last_request_time)
    IN  /\ th.pc = "locked"
        /\ threads' = [threads EXCEPT ![t] =
                [th EXCEPT !.now = now, !.wait = wait,
                           !.wake = IF wait > 0 THEN clock + wait ELSE 0,
                           !.pc = IF wait > 0 THEN "sleep" ELSE "write"]]
        /\ UNCHANGED <<_last_request_time, _rate_lock, clock, written, exceptS2>>

\* time.sleep returns, after at least the time asked for
Wake(t) ==
    LET th == threads[t]
    IN  /\ th.pc \in {"sleep", "backoff"}
        /\ clock >= th.wake
        /\ threads' = [threads EXCEPT ![t] =
                [th EXCEPT !.wake = 0,
                           !.pc = IF th.pc = "sleep" THEN "write" ELSE "for"]]
        /\ UNCHANGED <<_last_request_time, _rate_lock, clock, written, exceptS2>>

\* _ensure_rate_limit: _last_request_time = time.monotonic(), the end of
\* the with block and the return to the caller
WriteLastRequestTime(t) ==
    LET th == threads[t]
    IN  /\ th.pc = "write"
        /\ _last_request_time' = clock
        /\ written' = Append(written, clock)
        /\ _rate_lock' = 0
        /\ threads' = [threads EXCEPT ![t] =
                [th EXCEPT !.now = 0, !.wait = 0, !.pc = th.ret, !.ret = "",
                           !.passes = th.passes + 1,
                           !.trace = Append(th.trace,
                                            Event("limit", th.attempt, 0, 0))]]
        /\ UNCHANGED <<clock, exceptS2>>

\* time.monotonic() advances: always while a thread sleeps, otherwise up to
\* the bound of the model
Tick ==
    /\ \/ clock < MaxTime
       \/ \E t \in DOMAIN threads :
            threads[t].pc \in {"sleep", "backoff"} /\ clock < threads[t].wake
    /\ clock' = clock + 1
    /\ UNCHANGED <<_last_request_time, _rate_lock, threads, written, exceptS2>>

NextS2 ==
    \/ \E t \in DOMAIN threads : EnsureRateLimit(t)
    \/ \E t \in DOMAIN threads : AcquireRateLock(t)
    \/ \E t \in DOMAIN threads : ComputeWait(t)
    \/ \E t \in DOMAIN threads : Wake(t)
    \/ \E t \in DOMAIN threads : WriteLastRequestTime(t)
    \/ Tick

SpecS2 == InitS2 /\ [][NextS2]_vars

\* get_request, post_request or a direct call of _request_with_retries
RequestWithRetries(t) ==
    /\ threads[t].pc = "idle"
    /\ threads[t].trace = <<>>
    /\ \E method \in {"GET", "POST", "PUT"}, max_attempts \in 0..MaxAttempts,
          return_type \in {"None", "[]"} :
        threads' = [threads EXCEPT ![t] =
                        [IdleThread EXCEPT !.pc = "for", !.method = method,
                                           !.max_attempts = max_attempts,
                                           !.return_type = return_type]]
    /\ UNCHANGED <<_last_request_time, _rate_lock, clock, written, exceptS2>>

\* for attempt in range(1, max_attempts + 1), the call of _ensure_rate_limit
\* in the try block, and the return after the loop
ForAttempt(t) ==
    LET th == threads[t]
    IN  /\ th.pc = "for"
        /\ threads' = [threads EXCEPT ![t] =
                IF th.attempt < th.max_attempts
                THEN [th EXCEPT !.attempt = th.attempt + 1, !.pc = "acquire",
                                !.ret = "request"]
                ELSE [th EXCEPT !.pc = "done",
                                !.returned = Some([json |-> FALSE, body |-> 0,
                                                   value |-> th.return_type]),
                                !.trace = Append(th.trace,
                                                 Event("return", th.attempt, 0, 0))]]
        /\ UNCHANGED <<_last_request_time, _rate_lock, clock, written, exceptS2>>

\* the try block after the limiter: the request, which answers with a
\* status code or raises a requests.RequestException (status 0), then the
\* return of the JSON or the start of the back-off sleep
SendRequest(t) ==
    LET th == threads[t]
    IN  /\ th.pc = "request"
        /\ IF th.method \notin {"GET", "POST"}
           THEN threads' = [threads EXCEPT ![t] =
                    [th EXCEPT !.pc = "done", !.raised = "ValueError",
                               !.trace = Append(th.trace,
                                                Event("raise", th.attempt, 0, 0))]]
           ELSE \E status_code \in {200, 429, 500, 0} :
                threads' = [threads EXCEPT ![t] =
                    IF status_code = 200
                    THEN [th EXCEPT !.pc = "done", !.resp = status_code,
                                    !.returned = Some([json |-> TRUE,
                                                       body |-> th.attempt,
                                                       value |-> ""]),
                                    !.trace = th.trace \o
                                        <<Event("request", th.attempt, status_code, 0),
                                          Event("return", th.attempt, 0, 0)>>]
                    ELSE [th EXCEPT !.pc = "backoff",
                                    !.resp = IF status_code = 0 THEN th.resp
                                             ELSE status_code,
                                    !.wake = clock + Backoff(th.attempt) * TicksPerSecond,
                                    !.trace = th.trace \o
                                        <<Event("request", th.attempt, status_code, 0),
                                          Event("backoff", th.attempt, 0,
                                                Backoff(th.attempt))>>]]
        /\ UNCHANGED <<_last_request_time, _rate_lock, clock, written, exceptS2>>

NextRetries ==
    \/ \E t \in DOMAIN threads : RequestWithRetries(t)
    \/ \E t \in DOMAIN threads : ForAttempt(t)
    \/ \E t \in DOMAIN threads : AcquireRateLock(t)
    \/ \E t \in DOMAIN threads : ComputeWait(t)
    \/ \E t \in DOMAIN threads : Wake(t)
    \/ \E t \in DOMAIN threads : WriteLastRequestTime(t)
    \/ \E t \in DOMAIN threads : SendRequest(t)
    \/ Tick

SpecRetries == InitRetries /\ [][NextRetries]_vars

\* the interpreter keeps running the calling thread and time keeps passing
SpecRetriesFair == SpecRetries /\ WF_vars(NextRetries)

(***************************************************************************)
(* Claims about utils/s2.py.                                               *)
(***************************************************************************)
InLockedSection(t) == threads[t].pc \in {"locked", "sleep", "write"}

\* C24: with several threads calling _ensure_rate_limit concurrently, at
\* most one thread is inside the locked section at a time, and any two
\* successive values written to _last_request_time are at least
\* _MIN_INTERVAL apart.
C24_LimiterSerialisesAndSpaces ==
    /\ Cardinality({t \in DOMAIN threads : InLockedSection(t)}) <= 1
    /\ \A i \in 1..(Len(written) - 1) : written[i + 1] - written[i] >= _MIN_INTERVAL

\* three passes of two or more threads, one of them sleeping in the locked
\* section now while another thread waits for the lock
C24_Witness ==
    /\ Len(written) >= 3
    /\ \E t \in DOMAIN threads, u \in DOMAIN threads :
        /\ t # u
        /\ threads[t].pc = "sleep"
        /\ threads[t].passes >= 1
        /\ threads[u].pc = "acquire"
        /\ threads[u].passes >= 1

EventsOf(th, ev) == {i \in 1..Len(th.trace) : th.trace[i].ev = ev}

FailedRequests(th) == {i \in EventsOf(th, "request") : th.trace[i].status # 200}

\* what C25 says of the events of one call with method GET or POST
RetriesAsClaimed(th) ==
    LET tr == th.trace
        requests == EventsOf(th, "request")
    IN  /\ Cardinality(requests) <= th.max_attempts
        /\ th.raised = ""
        /\ \A i \in requests :
            /\ i > 1
            /\ tr[i - 1].ev = "limit"
            /\ tr[i - 1].attempt = tr[i].attempt
            /\ tr[i].attempt = Cardinality({j \in requests : j <= i})
        /\ \A i \in requests \ FailedRequests(th) :
            /\ \A j \in requests : j < i => tr[j].status \in {429, 500, 0}
            /\ i + 1 = Len(tr)
            /\ tr[i + 1].ev = "return"
            /\ th.pc = "done"
            /\ th.returned = Some([json |-> TRUE, body |-> tr[i].attempt, value |-> ""])
        /\ \A i \in FailedRequests(th) :
            LET n == tr[i].attempt
            IN  /\ tr[i + 1].ev = "backoff"
                /\ tr[i + 1].seconds = 2 ^ (n - 1)
                /\ i + 1 = Len(tr) =>
                    /\ th.pc \in {"backoff", "for", "acquire", "locked", "sleep", "write"}
                    /\ th.pc = "backoff" =>
                        th.wake = tr[i + 1].at + (2 ^ (n - 1)) * TicksPerSecond
                /\ i + 1 < Len(tr) =>
                    /\ tr[i + 2].at >= tr[i + 1].at + (2 ^ (n - 1)) * TicksPerSecond
                    /\ tr[i + 2].ev = IF n < th.max_attempts THEN "limit" ELSE "return"
                    /\ tr[i + 2].ev = "limit" => tr[i + 2].attempt = n + 1
        /\ (th.pc = "done" /\ Cardinality(FailedRequests(th)) = th.max_attempts) =>
            th.returned = Some([json |-> FALSE, body |-> 0, value |-> th.return_type])
        /\ th.returned # None => th.pc = "done"

CalledWithGetOrPost(t) == threads[t].pc # "idle" /\ threads[t].method \in {"GET", "POST"}

\* C25: for method GET or POST, _request_with_retries issues at most
\* max_attempts requests, each preceded by a pass through the rate limiter;
\* it returns the JSON of the first response that is neither a 429 nor an
\* error; after a 429 or a request error on attempt n it backs off 2^(n-1)
\* seconds and tries again; and once max_attempts attempts have failed it
\* terminates and returns return_type instead of raising.
C25_RetriesBoundedBackedOffAndTerminating ==
    /\ [](\A t \in RetryCallers : CalledWithGetOrPost(t) => RetriesAsClaimed(threads[t]))
    /\ \A t \in RetryCallers :
        CalledWithGetOrPost(t) ~> (threads[t].pc = "done" /\ threads[t].returned # None)

\* a call that failed MaxAttempts times, with a 429, a network error and an
\* HTTP error, and returned its return_type
C25_Witness ==
    \E t \in DOMAIN threads :
        LET th == threads[t]
        IN  /\ th.pc = "done"
            /\ th.method = "POST"
            /\ th.max_attempts = 3
            /\ th.returned = Some([json |-> FALSE, body |-> 0, value |-> "[]"])
            /\ Len(th.trace) = 10
            /\ th.trace[2].status = 429
            /\ th.trace[5].status = 0
            /\ th.trace[8].status = 500
            /\ th.trace[9].seconds = 4

(***************************************************************************)
(* models/openai.py: one call of OpenAIClient.call.                        *)
(***************************************************************************)
MaxRetries == 3

exceptOpenAI == <<storeVars, s2Vars, pipelineVars, selection, agentVars>>

\* what chat.completions.create can answer: a string of stream lines, an
\* iterable of chunks (which may raise while it is read), a dict, a plain
\* object, or an exception. collected is
\* the text _parse_stream_string / _collect_from_iterable finds in it (for
\* a dict, in its keys), content the text of its first choice.
Responses ==
    { [type |-> "str", collected |-> "answer", content |-> ""],
      [type |-> "str", collected |-> "", content |-> ""],
      [type |-> "iterable", collected |-> "answer", content |-> ""],
      [type |-> "iterable", collected |-> "", content |-> ""],
      [type |-> "iterable", collected |-> "", content |-> "answer"],
      [type |-> "dict", collected |-> "choices", content |-> "answer"],
      [type |-> "dict", collected |-> "", content |-> ""],
      [type |-> "object", collected |-> "", content |-> "answer"],
      [type |-> "object", collected |-> "", content |-> ""],
      [type |-> "broken iterable", collected |-> "", content |-> ""],
      [type |-> "raise", collected |-> "", content |-> ""] }

\* create() or the reading of its answer raises an Exception
RaisesException(resp) == resp.type \in {"raise", "broken iterable"}

\* the body of the try block after create(): the value returned for resp
ReturnedFor(resp) ==
    IF resp.type = "str" THEN Some(resp.collected)
    ELSE IF resp.type \in {"iterable", "dict"} /\ resp.collected # ""
    THEN Some(resp.collected)
    ELSE IF resp.type = "dict" /\ resp.content # "" THEN Some(resp.content)
    ELSE IF resp.type \in {"iterable", "object"} /\ resp.content # ""
    THEN Some(resp.content)
    ELSE None

NoOpenAICall ==
    [pc |-> "idle", max_retries |-> 0, attempt |-> 0, requests |-> <<>>,
     backoffs |-> <<>>, returned |-> None]

\* an OpenAIClient after __init__, with or without a KrutrimCloud client
InitOpenAI ==
    /\ NoStore
    /\ _last_request_time = 0
    /\ _rate_lock = 0
    /\ clock = 0
    /\ threads = <<>>
    /\ written = <<>>
    /\ _client \in {"none", "KrutrimCloud"}
    /\ openai_call = NoOpenAICall
    /\ context = <<>>
    /\ history = <<>>
    /\ pipeline = <<>>
    /\ selection = <<>>
    /\ messages = <<>>
    /\ generated = <<>>
    /\ agent_runs = <<>>

\* call(messages, max_retries): the client check and attempt = 0
OpenAICall ==
    /\ openai_call.pc = "idle"
    /\ \E max_retries \in 0..MaxRetries :
        \E client \in (IF _client = "none" THEN {"none", "KrutrimCloud"} ELSE {_client}) :
            /\ _client' = client
            /\ openai_call' = [NoOpenAICall EXCEPT
                                  !.max_retries = max_retries,
                                  !.pc = IF client = "none" THEN "done" ELSE "while"]
    /\ UNCHANGED exceptOpenAI

\* while attempt < max_retries, and the return after the loop
WhileAttempt ==
    /\ openai_call.pc = "while"
    /\ openai_call' = [openai_call EXCEPT
                          !.pc = IF openai_call.attempt < openai_call.max_retries
                                 THEN "create" ELSE "done"]
    /\ UNCHANGED <<_client, exceptOpenAI>>

\* the try block: create() and either the return of the call or, on an
\* exception, attempt += 1 and the start of the back-off sleep
Create ==
    /\ openai_call.pc = "create"
    /\ \E resp \in Responses :
        openai_call' =
            IF RaisesException(resp)
            THEN [openai_call EXCEPT
                     !.requests = Append(openai_call.requests, resp),
                     !.attempt = openai_call.attempt + 1,
                     !.backoffs = Append(openai_call.backoffs,
                                         2 ^ (openai_call.attempt + 1)),
                     !.pc = "sleep"]
            ELSE [openai_call EXCEPT
                     !.requests = Append(openai_call.requests, resp),
                     !.returned = ReturnedFor(resp),
                     !.pc = "done"]
    /\ UNCHANGED <<_client, exceptOpenAI>>

\* time.sleep(backoff) returns; continue
BackoffOver ==
    /\ openai_call.pc = "sleep"
    /\ openai_call' = [openai_call EXCEPT !.pc = "while"]
    /\ UNCHANGED <<_client, exceptOpenAI>>

NextOpenAI ==
    \/ OpenAICall
    \/ WhileAttempt
    \/ Create
    \/ BackoffOver

SpecOpenAI == InitOpenAI /\ [][NextOpenAI]_vars

\* C26: when the response is an iterable that produces no text, the call
\* goes on to the next try, up to max_retries requests, instead of
\* returning None for that attempt.
C26_EmptyIterableIsRetried ==
    LET n == Len(openai_call.requests)
    IN  ~ /\ openai_call.pc = "done"
          /\ n > 0
          /\ n < openai_call.max_retries
          /\ openai_call.requests[n].type = "iterable"
          /\ openai_call.requests[n].collected = ""
          /\ openai_call.returned = None

(***************************************************************************)
(* pipelines/research_pipeline.py and utils/evaluation.py. A text the      *)
(* agents produce is the pair of its kind and the iteration that produced  *)
(* it; a value of the context or of a history item is an Optional.         *)
(***************************************************************************)
MaxMetrics == 2
MaxHistory == 3
MaxIterations == 2

Metrics == SubSeq(<<"Clarity", "Relevance", "Originality", "Feasibility", "Significance">>, 1, MaxMetrics)

\* [feedback['rating'] for feedback in feedbacks.values() if feedback['rating']]
RECURSIVE get_feedbacks_scores(_)
get_feedbacks_scores(feedbacks) ==
    IF feedbacks = <<>> THEN <<>>
    ELSE LET rating == Head(feedbacks)[2].rating
         IN  (IF rating # None /\ rating[1] # 0 THEN <<rating[1]>> ELSE <<>>)
             \o get_feedbacks_scores(Tail(feedbacks))

get_num_feedbacks_scores(feedbacks) == Len(get_feedbacks_scores(feedbacks))

\* sum(...) / len(...): raises ZeroDivisionError on no scores
get_avg_feedbacks_score(feedbacks) ==
    LET scores == get_feedbacks_scores(feedbacks)
    IN  IF Len(scores) = 0 THEN [raised |-> TRUE, v |-> RatInt(0)]
        ELSE [raised |-> FALSE, v |-> Rat(SumSeq(scores), Len(scores))]

\* item.get("feedbacks") or {}
FeedbacksOrEmpty(item) ==
    LET feedbacks == Get(item, "feedbacks", None)
    IN  IF feedbacks = None THEN EmptyDict ELSE feedbacks[1]

\* the list comprehension of _select_best: (average, item) of the items
\* that have a score, the condition being evaluated before the average
RECURSIVE Scored(_)
Scored(history_list) ==
    IF history_list = <<>> THEN <<>>
    ELSE LET item == Head(history_list)
         IN  (IF get_num_feedbacks_scores(FeedbacksOrEmpty(item)) > 0
              THEN << <<get_avg_feedbacks_score(FeedbacksOrEmpty(item)), item>> >>
              ELSE <<>>)
             \o Scored(Tail(history_list))

RECURSIVE LastMax(_)
LastMax(scored) ==
    IF Len(scored) = 1 THEN scored[1]
    ELSE LET m == LastMax(Tail(scored))
         IN  IF RatLeq(Head(scored)[1].v, m[1].v) THEN m ELSE Head(scored)

\* max(scored, key=lambda x: x[0]): the first of the maximal elements
RECURSIVE FirstMax(_)
FirstMax(scored) ==
    IF Len(scored) = 1 THEN scored[1]
    ELSE LET m == FirstMax(Tail(scored))
         IN  IF RatLess(Head(scored)[1].v, m[1].v) THEN m ELSE Head(scored)

_select_best(history_list) ==
    IF history_list = <<>> THEN [raised |-> FALSE, v |-> EmptyDict]
    ELSE LET scored == Scored(history_list)
         IN  IF \E i \in 1..Len(scored) : scored[i][1].raised
             THEN [raised |-> TRUE, v |-> EmptyDict]
             ELSE IF scored = <<>>
             THEN [raised |-> FALSE, v |-> history_list[Len(history_list)]]
             ELSE [raised |-> FALSE, v |-> FirstMax(scored)[2]]

\* the ratings of the feedbacks of one history item: None for no feedbacks,
\* <<>> for the {} a validator returns for a text that did not parse, else
\* for each metric the rating parsed out of its review, 1..5 or None
FeedbackRatings ==
    {None, Some(<<>>)}
    \cup {Some(r) : r \in [1..MaxMetrics -> {None} \cup {Some(k) : k \in 1..5}]}

\* the feedbacks dict of the validator of a stage in iteration i
Feedbacks(stage, i, ratings) ==
    List([m \in 1..Len(ratings) |->
            <<Metrics[m], [review |-> Some(<<stage, "review", i>>), rating |-> ratings[m]]>>])

\* the history item of iteration i of a stage
HistoryItem(stage, i, ratings) ==
    << <<stage, Some(<<stage, i>>)>>, <<"rationale", Some(<<stage, "rationale", i>>)>>,
       <<"feedbacks", IF ratings = None THEN None
                      ELSE Some(Feedbacks(stage, i, ratings[1]))>> >>

exceptSelection == <<storeVars, s2Vars, openaiVars, pipelineVars, agentVars>>

InitSelect ==
    /\ NoStore
    /\ _last_request_time = 0
    /\ _rate_lock = 0
    /\ clock = 0
    /\ threads = <<>>
    /\ written = <<>>
    /\ _client = "none"
    /\ openai_call = <<>>
    /\ context = <<>>
    /\ history = <<>>
    /\ pipeline = <<>>
    /\ \E n \in 0..MaxHistory :
        \E ratings \in [1..n -> FeedbackRatings] :
            selection = [history_list |-> List([i \in 1..n |->
                                                  HistoryItem("problem", i, ratings[i])]),
                         done |-> FALSE, raised |-> FALSE, returned |-> EmptyDict]
    /\ messages = <<>>
    /\ generated = <<>>
    /\ agent_runs = <<>>

SelectBest ==
    /\ ~selection.done
    /\ \E res \in {_select_best(selection.history_list)} :
        selection' = [selection EXCEPT !.done = TRUE, !.raised = res.raised,
                                       !.returned = res.v]
    /\ UNCHANGED exceptSelection

SpecSelect == InitSelect /\ [][SelectBest]_vars

\* the keys of the three stages of the pipeline and their agents
Stages ==
    << [key |-> "problem", rationale |-> "problem_rationale",
        feedbacks |-> "problem_feedbacks", history |-> "problems",
        generator |-> "problem_identifier", validator |-> "problem_validator"],
       [key |-> "method", rationale |-> "method_rationale",
        feedbacks |-> "method_feedbacks", history |-> "methods",
        generator |-> "method_developer", validator |-> "method_validator"],
       [key |-> "experiment", rationale |-> "experiment_rationale",
        feedbacks |-> "experiment_feedbacks", history |-> "experiments",
        generator |-> "experiment_designer", validator |-> "experiment_validator"] >>

\* dict.update(other)
RECURSIVE Update(_, _)
Update(d, other) ==
    IF other = <<>> THEN d
    ELSE Update(Put(d, Head(other)[1], Head(other)[2]), Tail(other))

IterationsAsGiven(iterations) == iterations

\* self.iterations = max(1, iterations)
Iterations(iterations) == IF iterations > 1 THEN iterations ELSE 1

\* what a generating agent returns in iteration i: its parsed text and
\* rationale, or None for both when the reply does not parse
GeneratorOutputs(stage, i) ==
    { << <<stage.key, Some(<<stage.key, i>>)>>,
         <<stage.rationale, Some(<<stage.key, "rationale", i>>)>> >>,
      << <<stage.key, None>>, <<stage.rationale, None>> >> }

\* what a validator returns in iteration i: {} for a missing text or
\* rationale, else the parsed review of every metric, here with the rating
\* 5 throughout, with a single rating of 1, or with no rating
ValidatorOutputs(stage, i, ctx) ==
    IF Get(ctx, stage.key, None) = None \/ Get(ctx, stage.rationale, None) = None
    THEN { << <<stage.feedbacks, Some(EmptyDict)>> >> }
    ELSE { << <<stage.feedbacks, Some(Feedbacks(stage.key, i, List(r)))>> >> :
             r \in { [m \in 1..MaxMetrics |-> Some(5)],
                     [m \in 1..MaxMetrics |-> IF m = 1 THEN Some(1) ELSE None],
                     [m \in 1..MaxMetrics |-> None] } }

exceptPipeline == <<storeVars, s2Vars, openaiVars, selection, agentVars>>

\* a ResearchPipeline after __init__ and the context its run is given
InitPipeline ==
    /\ NoStore
    /\ _last_request_time = 0
    /\ _rate_lock = 0
    /\ clock = 0
    /\ threads = <<>>
    /\ written = <<>>
    /\ _client = "none"
    /\ openai_call = <<>>
    /\ context = << <<"paper", Some(<<"paper", 0>>)>> >>
    /\ history = <<>>
    /\ \E iterations \in (-1)..MaxIterations :
        pipeline = [pc |-> "idle", given |-> iterations,
                    iterations |-> Iterations(iterations), stage |-> 0, i |-> 0,
                    trace |-> <<>>]
    /\ selection = <<>>
    /\ messages = <<>>
    /\ generated = <<>>
    /\ agent_runs = <<>>

\* for i in range(self.iterations): the body, or the code after the loop
ForIteration(i, iterations) == IF i < iterations THEN "generate" ELSE "select"

\* run: history = {"problems": [], "methods": [], "experiments": []}
Run ==
    /\ pipeline.pc = "idle"
    /\ history' = << <<"problems", <<>> >>, <<"methods", <<>> >>, <<"experiments", <<>> >> >>
    /\ pipeline' = [pipeline EXCEPT !.pc = ForIteration(0, pipeline.iterations),
                                    !.stage = 1, !.i = 0]
    /\ UNCHANGED <<context, exceptPipeline>>

\* context.update(self.<generator>.run(context) or {})
RunGenerator ==
    LET stage == Stages[pipeline.stage]
    IN  /\ pipeline.pc = "generate"
        /\ \E output \in GeneratorOutputs(stage, pipeline.i + 1) :
            context' = Update(context, output)
        /\ pipeline' = [pipeline EXCEPT !.pc = "validate",
                                        !.trace = Append(pipeline.trace, stage.generator)]
        /\ UNCHANGED <<history, exceptPipeline>>

\* context.update(self.<validator>.run(context) or {}), history[...].append
\* of the item read from the context, and the next turn of the loop
RunValidator ==
    LET stage == Stages[pipeline.stage]
    IN  /\ pipeline.pc = "validate"
        /\ \E output \in ValidatorOutputs(stage, pipeline.i + 1, context) :
            \E ctx \in {Update(context, output)} :
                /\ context' = ctx
                /\ history' = Put(history, stage.history,
                                  Append(Get(history, stage.history, <<>>),
                                         << <<stage.key, Get(ctx, stage.key, None)>>,
                                            <<"rationale", Get(ctx, stage.rationale, None)>>,
                                            <<"feedbacks", Get(ctx, stage.feedbacks, None)>> >>))
        /\ pipeline' = [pipeline EXCEPT
                           !.i = pipeline.i + 1,
                           !.pc = ForIteration(pipeline.i + 1, pipeline.iterations),
                           !.trace = Append(pipeline.trace, stage.validator)]
        /\ UNCHANGED exceptPipeline

\* best = self._select_best(history[...]); context.update(best); then the
\* loop of the next stage
SelectBestOfStage ==
    LET stage == Stages[pipeline.stage]
    IN  /\ pipeline.pc = "select"
        /\ \E best \in {_select_best(Get(history, stage.history, <<>>))} :
            context' = Update(context, best.v)
        /\ pipeline' = [pipeline EXCEPT
                           !.i = 0,
                           !.stage = IF pipeline.stage < 3 THEN pipeline.stage + 1
                                     ELSE pipeline.stage,
                           !.pc = IF pipeline.stage < 3
                                  THEN ForIteration(0, pipeline.iterations)
                                  ELSE "finish"]
        /\ UNCHANGED <<history, exceptPipeline>>

\* context.update({"history": history}); return context
Finish ==
    /\ pipeline.pc = "finish"
    /\ context' = Put(context, "history", Some(history))
    /\ pipeline' = [pipeline EXCEPT !.pc = "done"]
    /\ UNCHANGED <<history, exceptPipeline>>

NextPipeline ==
    \/ Run
    \/ RunGenerator
    \/ RunValidator
    \/ SelectBestOfStage
    \/ Finish

SpecPipeline == InitPipeline /\ [][NextPipeline]_vars

(***************************************************************************)
(* Claims about the research pipeline.                                     *)
(***************************************************************************)
\* the ratings given in the feedbacks of a history item, 0 where none is
RatingValues(item) ==
    LET feedbacks == item[3][2]
    IN  IF feedbacks = None THEN <<>>
        ELSE List([m \in 1..Len(feedbacks[1]) |->
                     IF feedbacks[1][m][2].rating = None THEN 0
                     ELSE feedbacks[1][m][2].rating[1]])

RatingCount(item) == Cardinality({m \in 1..Len(RatingValues(item)) : RatingValues(item)[m] > 0})

RatingSum(item) == SumSeq(RatingValues(item))

\* the average rating of a is higher than that of b, both having ratings
HigherAverage(a, b) == RatingSum(a) * RatingCount(b) > RatingSum(b) * RatingCount(a)

\* C28: _select_best returns {} for an empty history; otherwise the item
\* with the highest average rating among the items that have a rating, the
\* earliest one on ties; when no item has a rating, the last item; and it
\* never divides by zero.
C28_SelectBestPicksFirstHighestAverage ==
    selection.done =>
        LET h == selection.history_list
            rated == {i \in 1..Len(h) : RatingCount(h[i]) > 0}
        IN  /\ ~selection.raised
            /\ Len(h) = 0 => selection.returned = EmptyDict
            /\ (Len(h) > 0 /\ rated = {}) => selection.returned = h[Len(h)]
            /\ rated # {} =>
                \E i \in rated :
                    /\ selection.returned = h[i]
                    /\ \A j \in rated :
                        /\ ~HigherAverage(h[j], h[i])
                        /\ j < i => HigherAverage(h[i], h[j])

\* three items, the first with a lower average, the second and the third
\* tied for the highest average with different ratings, the second returned
C28_Witness ==
    LET h == selection.history_list
    IN  /\ selection.done
        /\ Len(h) = 3
        /\ RatingCount(h[1]) > 0
        /\ RatingCount(h[2]) = 1
        /\ RatingCount(h[3]) = 2
        /\ HigherAverage(h[2], h[1])
        /\ ~HigherAverage(h[2], h[3])
        /\ ~HigherAverage(h[3], h[2])
        /\ selection.returned = h[2]

AgentOrder ==
    <<"problem_identifier", "problem_validator", "method_developer",
      "method_validator", "experiment_designer", "experiment_validator">>

\* C27: run with n = max(1, iterations) calls (problem identifier, problem
\* validator) n times, then (method developer, method validator) n times,
\* then (experiment designer, experiment validator) n times, every validator
\* directly after the generator of its iteration, no stage before the last
\* validation of the stage before it; on return each of the three histories
\* holds exactly n entries.
C27_AgentsRunInStageOrder ==
    LET n == IF pipeline.given > 1 THEN pipeline.given ELSE 1
        t == pipeline.trace
    IN  /\ Len(t) <= 6 * n
        /\ \A k \in 1..Len(t) :
            t[k] = AgentOrder[2 * ((k - 1) \div (2 * n)) + ((k - 1) % 2) + 1]
        /\ pipeline.pc = "done" =>
            /\ Len(t) = 6 * n
            /\ Len(Get(history, "problems", <<>>)) = n
            /\ Len(Get(history, "methods", <<>>)) = n
            /\ Len(Get(history, "experiments", <<>>)) = n
            /\ Get(context, "history", None) = Some(history)

\* a run constructed with iterations = 0 that has returned, and so ran
\* every stage once
C27_Witness ==
    /\ pipeline.pc = "done"
    /\ pipeline.given = 0
    /\ pipeline.trace = AgentOrder

\* C29: when run returns, for each stage X the context values context[X],
\* context[X + '_rationale'] and context[X + '_feedbacks'] all come from
\* the history entry that _select_best chose for that stage.
C29_ContextHoldsSelectedIteration ==
    pipeline.pc = "done" =>
        \A s \in 1..3 :
            LET best == _select_best(Get(history, Stages[s].history, <<>>)).v
            IN  /\ Get(context, Stages[s].key, None) = Get(best, Stages[s].key, None)
                /\ Get(context, Stages[s].rationale, None) = Get(best, "rationale", None)
                /\ Get(context, Stages[s].feedbacks, None) = Get(best, "feedbacks", None)

(***************************************************************************)
(* pipelines/agents: the conversations of ProblemIdentifier and            *)
(* MethodDeveloper over the runs a caller makes on them.                   *)
(***************************************************************************)
MaxAgentRuns == 3

Agents == {"problem_identifier", "method_developer"}

\* the key of the context an agent generates: context.get('problem') in
\* ProblemIdentifier.run, context.get('method') in MethodDeveloper.run
OwnKey(agent) == IF agent = "problem_identifier" THEN "problem" ELSE "method"

Message(role, content, n) == [role |-> role, content |-> content, n |-> n]

reset_keeping_messages(agent, msgs) == msgs

\* reset(): self.messages = [{'role': 'system', 'content': self.system_prompt}]
reset(agent, msgs) == <<Message("system", "system prompt", 0)>>

\* _chat(user_prompt): the user message, the call, the assistant message
_chat(msgs, user_prompt, assistant_reply, n) ==
    msgs \o <<Message("user", user_prompt, n), Message("assistant", assistant_reply, n)>>

exceptAgents == <<storeVars, s2Vars, openaiVars, pipelineVars, selection>>

\* the agents after __init__
InitAgents ==
    /\ NoStore
    /\ _last_request_time = 0
    /\ _rate_lock = 0
    /\ clock = 0
    /\ threads = <<>>
    /\ written = <<>>
    /\ _client = "none"
    /\ openai_call = <<>>
    /\ context = <<>>
    /\ history = <<>>
    /\ pipeline = <<>>
    /\ selection = <<>>
    /\ messages = [agent \in Agents |-> <<Message("system", "system prompt", 0)>>]
    /\ generated = [agent \in Agents |-> FALSE]
    /\ agent_runs = [agent \in Agents |-> <<>>]

\* run(context) of one of the agents; api_client.call returns a text that
\* parse_output matches, a text it does not match, or None, on which
\* re.search raises a TypeError
AgentRun(agent) ==
    /\ Len(agent_runs["problem_identifier"]) + Len(agent_runs["method_developer"]) < MaxAgentRuns
    /\ \E problem \in {None, Some("text")}, method \in {None, Some("text")},
          assistant_reply \in {"parsable", "unparsable", "None"} :
        LET ctx == << <<"problem", problem>>, <<"method", method>> >>
            n == Len(agent_runs[agent]) + 1
            do_generation == (~generated[agent]) \/ Get(ctx, OwnKey(agent), None) = None
        IN  /\ messages' = [messages EXCEPT ![agent] =
                    IF do_generation
                    THEN _chat(reset(agent, messages[agent]), "generation prompt",
                               assistant_reply, n)
                    ELSE _chat(messages[agent], "refinement prompt", assistant_reply, n)]
            /\ generated' = [generated EXCEPT ![agent] =
                    IF do_generation THEN TRUE ELSE generated[agent]]
            /\ agent_runs' = [agent_runs EXCEPT ![agent] =
                    Append(agent_runs[agent],
                           [context |-> ctx, reply |-> assistant_reply,
                            kind |-> IF do_generation THEN "generation" ELSE "refinement",
                            raised |-> (assistant_reply = "None")])]
    /\ UNCHANGED exceptAgents

NextAgents == \E agent \in Agents : AgentRun(agent)

SpecAgents == InitAgents /\ [][NextAgents]_vars

(***************************************************************************)
(* Claims about the generating agents.                                     *)
(***************************************************************************)
\* the key C30 names for each agent
ClaimedKey(agent) == IF agent = "method_developer" THEN "method" ELSE "problem"

Generations(runs) == {k \in 1..Len(runs) : runs[k].kind = "generation"}

\* the number of runs since the last generation, that run included
RunsSinceGeneration(runs) ==
    IF Generations(runs) = {} THEN Len(runs)
    ELSE Len(runs) - SetMax(Generations(runs)) + 1

\* C30: ProblemIdentifier.run, and likewise MethodDeveloper.run, generates
\* from scratch exactly when the agent has not generated before or the
\* context's current problem (method) is None, and refines otherwise; each
\* generation first resets the conversation to the single system message,
\* and after any sequence of runs the conversation is the system message
\* followed by alternating user/assistant messages, one pair per run since
\* the last generation.
C30_GeneratesWhenNewOrMissingAndKeepsPairs ==
    \A agent \in Agents :
        LET runs == agent_runs[agent]
            msgs == messages[agent]
            since == RunsSinceGeneration(runs)
        IN  /\ \A k \in 1..Len(runs) :
                /\ runs[k].kind \in {"generation", "refinement"}
                /\ runs[k].kind = "generation" <=>
                    \/ \A j \in 1..(k - 1) : runs[j].kind # "generation"
                    \/ Get(runs[k].context, ClaimedKey(agent), None) = None
            /\ Len(msgs) = 1 + 2 * since
            /\ msgs[1].role = "system"
            /\ \A j \in 1..since :
                LET k == Len(runs) - since + j
                IN  /\ msgs[2 * j].role = "user"
                    /\ msgs[2 * j].n = k
                    /\ msgs[2 * j].content =
                         IF runs[k].kind = "generation" THEN "generation prompt"
                         ELSE "refinement prompt"
                    /\ msgs[2 * j + 1].role = "assistant"
                    /\ msgs[2 * j + 1].n = k
                    /\ msgs[2 * j + 1].content = runs[k].reply
            /\ Len(runs) > 0 => msgs[2].content = "generation prompt"

\* an agent that generated, refined, and then generated again because its
\* key of the context was None: the conversation holds one pair again
C30_Witness ==
    \E agent \in Agents :
        /\ Len(agent_runs[agent]) = 3
        /\ agent_runs[agent][2].kind = "refinement"
        /\ agent_runs[agent][3].kind = "generation"
        /\ Get(agent_runs[agent][3].context, ClaimedKey(agent), None) = None
        /\ generated[agent]
        /\ Len(messages[agent]) = 3
====
